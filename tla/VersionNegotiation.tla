------------------------- MODULE VersionNegotiation -------------------------
(* A client and a server that speak several versions: the hello of the     *)
(* client, as the client of all versions writes it or as an SSLv2 client   *)
(* does, the server that reads just enough of it to pick a version, and    *)
(* the hand-over to the handshake of that version on either side.          *)
(*                                                                         *)
(* Versions are 0 (SSL 3.0) to 3 (TLS 1.2).  A message is the sequence of  *)
(* its cells, numbered; what the cells say is in the record hello.  The    *)
(* transport takes and gives at most piece cells in a call, and every call *)
(* may also find it full or empty, which changes nothing.                  *)
EXTENDS Integers, Sequences, FiniteSets

CONSTANTS Piece,          \* the most cells one transport call moves
          HelloLength,    \* cells of a hello in a record, at least Sniffed
          OldHelloLengths,\* cells of an SSLv2 hello, at least Sniffed
          VersionSets     \* the sets of versions an end may enable

Version == 0 .. 3
Sniffed == 11      \* cells the server reads to know the kind of hello
ReplySniffed == 7  \* cells the client reads to know the version of the answer
ReplyLength == 8

ASSUME VersionAssumption ==
  /\ Piece \subseteq Nat \ {0}
  /\ OldHelloLengths \cup {HelloLength} \subseteq {n \in Nat : n >= Sniffed}
  /\ VersionSets \subseteq SUBSET Version

VARIABLES hello,  \* the hello: its kind, length, version, whether a fallback
          cl,     \* the client
          sv,     \* the server
          up,     \* cells of the hello on the wire
          down    \* cells of the answer on the wire
versionVars == <<hello, cl, sv, up, down>>

Greatest(s) == CHOOSE v \in s : \A w \in s : w <= v
Cells(n) == [i \in 1 .. n |-> i]
Prefix(s, n) == SubSeq(s, 1, n)
Rest(s, n) == SubSeq(s, n + 1, Len(s))

(* ------------------------------- the client ---------------------------- *)
(* The version of the hello: below an omitted version that has an enabled  *)
(* one below it.                                                           *)
HighestOn(on) == Greatest(on)
HelloVersion(on) ==
  LET Holes == {v \in Version : v \notin on /\ \E w \in on : w < v}
  IN IF Holes = {} THEN 3 ELSE (CHOOSE v \in Holes : \A w \in Holes : v <= w) - 1

(* ssl_get_max_version                                                     *)
MaxVersion(on) == IF on = {} THEN 0 ELSE Greatest(on)

VersionInit ==
  \E conv \in VersionSets, sonv \in VersionSets, fallback \in BOOLEAN, old \in BOOLEAN,
     n \in OldHelloLengths, p \in Piece :
    /\ conv # {} /\ sonv # {}
    /\ old => ~fallback
    /\ hello = [old |-> old, length |-> IF old THEN n ELSE HelloLength,
                version |-> IF old THEN Greatest(conv) ELSE HelloVersion(conv),
                fallback |-> fallback]
    /\ ~old => n = CHOOSE x \in OldHelloLengths : TRUE
    /\ cl = [on |-> conv, st |-> "write", off |-> 0, packet |-> <<>>, rbuf |-> <<>>,
             version |-> -1, piece |-> p]
    /\ sv = [on |-> sonv, st |-> "sniff", packet |-> <<>>, rbuf |-> <<>>, reuse |-> FALSE,
             version |-> -1, read |-> <<>>, digest |-> <<>>, off |-> 0, reply |-> "none"]
    /\ up = <<>> /\ down = <<>>

Least2(i, j) == IF i < j THEN i ELSE j

(* ssl23_write_bytes, one write of the transport at a time                 *)
WriteHello ==
  LET n == Least2(cl.piece, hello.length - cl.off)
  IN /\ cl.st = "write"
     /\ up' = up \o SubSeq(Cells(hello.length), cl.off + 1, cl.off + n)
     /\ cl' = [cl EXCEPT !.off = @ + n, !.st = IF cl.off + n = hello.length THEN "read" ELSE @]
     /\ UNCHANGED <<hello, sv, down>>

(* ssl23_read_bytes: one read of the transport.                            *)
Wanted(packet, n) == n - Len(packet)
Got(wire, packet, n) == Least2(Least2(cl.piece, Wanted(packet, n)), Len(wire))

ReadReply ==
  LET k == Got(down, cl.packet, ReplySniffed)
  IN /\ cl.st = "read" /\ Len(cl.packet) < ReplySniffed /\ down # <<>>
     /\ cl' = [cl EXCEPT !.packet = @ \o Prefix(down, k)]
     /\ down' = Rest(down, k)
     /\ UNCHANGED <<hello, sv, up>>

(* ssl23_get_server_hello: an answer of a version that is on is taken; the *)
(* cells read go to the buffer of that version's handshake.                *)
TakesAny(on, v) == TRUE
TakesVersion(on, v) == v \in on

GetServerHello ==
  /\ cl.st = "read" /\ Len(cl.packet) = ReplySniffed
  /\ cl' = IF TakesVersion(cl.on, sv.version) /\ sv.reply = "hello"
           THEN [cl EXCEPT !.st = "handshake", !.version = sv.version,
                           !.rbuf = cl.packet, !.packet = <<>>]
           ELSE [cl EXCEPT !.st = "failed"]
  /\ UNCHANGED <<hello, sv, up, down>>

(* ------------------------------- the server ---------------------------- *)
ServerWants == IF sv.st = "sniff" THEN Sniffed ELSE hello.length

ServerReads ==
  LET k == Got(up, sv.packet, ServerWants)
  IN /\ sv.st \in {"sniff", "old"} /\ Len(sv.packet) < ServerWants /\ up # <<>>
     /\ sv' = [sv EXCEPT !.packet = @ \o Prefix(up, k)]
     /\ up' = Rest(up, k)
     /\ UNCHANGED <<hello, cl, down>>

(* ssl23_get_mutual_version                                                *)
Mutual(on, v) == {w \in on : w <= v}
HasMutual(on, v) == Mutual(on, v) # {}

(* ssl23_get_client_hello, once it has its cells                           *)
SniffRecord ==
  /\ sv.st = "sniff" /\ Len(sv.packet) = Sniffed /\ ~hello.old
  /\ sv' = IF HasMutual(sv.on, hello.version)
           THEN [sv EXCEPT !.st = "handshake", !.version = Greatest(Mutual(sv.on, hello.version)),
                           !.rbuf = sv.packet, !.packet = <<>>]
           ELSE [sv EXCEPT !.st = "failed"]
  /\ UNCHANGED <<hello, cl, up, down>>

SniffOld ==
  /\ sv.st = "sniff" /\ Len(sv.packet) = Sniffed /\ hello.old
  /\ sv' = IF HasMutual(sv.on, hello.version)
           THEN [sv EXCEPT !.st = "old", !.version = Greatest(Mutual(sv.on, hello.version))]
           ELSE [sv EXCEPT !.st = "failed"]
  /\ UNCHANGED <<hello, cl, up, down>>

(* ssl23_get_v2_client_hello: the whole message, without its length, is    *)
(* digested and rewritten as a hello that is read again.                   *)
WholeDigest(packet) == packet
OldDigest(packet) == Rest(packet, 2)

GetOldHello ==
  /\ sv.st = "old" /\ Len(sv.packet) = hello.length
  /\ sv' = [sv EXCEPT !.st = "handshake", !.reuse = TRUE, !.digest = OldDigest(sv.packet),
                      !.read = sv.packet, !.packet = <<>>, !.rbuf = <<>>]
  /\ UNCHANGED <<hello, cl, up, down>>

(* The handshake of the version reads the hello: again, what was rewritten,*)
(* or from its buffer and then from the transport.                         *)
FillHello ==
  LET k == Least2(cl.piece, Len(up))
  IN /\ sv.st = "handshake" /\ ~sv.reuse /\ Len(sv.rbuf) < hello.length /\ up # <<>>
     /\ sv' = [sv EXCEPT !.rbuf = @ \o Prefix(up, k)]
     /\ up' = Rest(up, k)
     /\ UNCHANGED <<hello, cl, down>>

(* ssl3_get_client_hello: a hello of a client that fell back is refused    *)
(* when the server could do better (ssl_bytes_to_cipher_list).             *)
Inappropriate == hello.fallback /\ sv.version < MaxVersion(sv.on)

GetClientHello ==
  /\ sv.st = "handshake" /\ sv.reply = "none"
  /\ sv.reuse \/ Len(sv.rbuf) = hello.length
  /\ sv' = [sv EXCEPT !.reply = IF Inappropriate THEN "alert" ELSE "hello",
                      !.read = IF sv.reuse THEN @ ELSE sv.rbuf,
                      !.digest = IF sv.reuse THEN @ ELSE sv.rbuf,
                      !.rbuf = <<>>, !.reuse = FALSE, !.st = "reply"]
  /\ UNCHANGED <<hello, cl, up, down>>

Reply ==
  LET n == Least2(cl.piece, ReplyLength - sv.off)
  IN /\ sv.st = "reply"
     /\ down' = down \o SubSeq(Cells(ReplyLength), sv.off + 1, sv.off + n)
     /\ sv' = [sv EXCEPT !.off = @ + n,
                         !.st = IF sv.off + n < ReplyLength THEN @
                                ELSE IF sv.reply = "hello" THEN "done" ELSE "failed"]
     /\ UNCHANGED <<hello, cl, up>>

FillReply ==
  LET k == Least2(cl.piece, Len(down))
  IN /\ cl.st = "handshake" /\ down # <<>>
     /\ cl' = [cl EXCEPT !.rbuf = @ \o Prefix(down, k),
                         !.st = IF Len(cl.rbuf) + k = ReplyLength THEN "done" ELSE @]
     /\ down' = Rest(down, k)
     /\ UNCHANGED <<hello, sv, up>>

VersionNext ==
  \/ WriteHello \/ ReadReply \/ GetServerHello \/ ServerReads \/ SniffRecord \/ SniffOld
  \/ GetOldHello \/ FillHello \/ GetClientHello \/ Reply \/ FillReply

VersionSpec == VersionInit /\ [][VersionNext]_versionVars

(* ------------------------------ properties ----------------------------- *)
(* What the handshake of the chosen version reads, rewritten or not, is    *)
(* the hello the client sent and nothing else, and both ends digest the    *)
(* same cells of it, however the transport cuts it; the handshake of the   *)
(* client finds the answer whole (ssl23_get_client_hello,                  *)
(* ssl23_get_v2_client_hello, ssl23_get_server_hello).                     *)
HelloIsHandedOver ==
  sv.reply # "none" =>
    /\ sv.read = Cells(hello.length) /\ up = <<>>
    /\ sv.digest = IF hello.old THEN Rest(Cells(hello.length), 2) ELSE Cells(hello.length)
    /\ cl.st = "done" => cl.rbuf = Cells(ReplyLength)

(* Two ends that finish have the best version both enable: of the versions *)
(* of the client those below its lowest gap count, as the comment in       *)
(* ssl23_client_hello says of the options.  Ends that share such a version *)
(* always finish, unless the client fell back from one the server enables. *)
Counted(on) ==
  IF hello.old THEN on
  ELSE {v \in on : ~\E u \in Version : u < v /\ u \notin on /\ \E w \in on : w < u}

Common == Counted(cl.on) \cap sv.on

VersionIsBest ==
  /\ cl.st = "done" =>
       /\ cl.version = sv.version /\ Common # {} /\ cl.version = Greatest(Common)
       /\ hello.fallback => cl.version = MaxVersion(sv.on)
  /\ cl.st = "failed" =>
       \/ Common = {}
       \/ hello.old /\ sv.version \notin cl.on
       \/ hello.fallback /\ sv.version < MaxVersion(sv.on)
  /\ sv.st = "failed" => sv.reply = "alert" \/ Mutual(sv.on, hello.version) = {}

(* The ends agree on the best version they share, and the handshake of     *)
(* that version starts from the hello that was sent.                       *)
VersionIsAgreed == HelloIsHandedOver /\ VersionIsBest
=============================================================================

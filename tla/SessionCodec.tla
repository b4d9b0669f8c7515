---------------------------- MODULE SessionCodec ----------------------------
(* Sessions as they are kept outside the process (ssl/ssl_asn1.c). An        *)
(* encoding is the sequence of its elements, [tag, val]: untagged ones come  *)
(* first, each in its place, then those with a number, which may be absent.  *)
(* Octet strings are sequences, and arrays of the session have the sizes     *)
(* below; what is absent is Missing.                                         *)
EXTENDS Calculation, Integers, Sequences
LOCAL INSTANCE SequencesExt
LOCAL INSTANCE TLC

CONSTANTS
  MAX_SESSION_ID, MAX_MASTER_KEY, MAX_KEY_ARG, MAX_SID_CTX, SHA256_SIZE, EVP_MAX_MD_SIZE,
  KnownCiphers,    \* the last two bytes of the suites of this build
  Now,             \* what time() says when an encoding is read
  CodecSessions,   \* sessions to write and read back
  CodecStored,     \* sessions of which the encodings are changed
  CodecChanges     \* [at, put]: the changes

Missing == <<-1>>   \* no octet is negative
DefaultTimeout == 3
SessionVersion == 1
SSL2_VERSION == 2
SSL3_VERSION == 768

(* Elements without a tag of their own are told apart by their type.         *)
Integer == -1
Octets == -2
Element(tag, val) == [tag |-> tag, val |-> val]
When(condition, tag, val) == IF condition THEN <<Element(tag, val)>> ELSE <<>>

CipherBytes(s) ==
  LET low == <<(s.cipher \div 256) % 256, s.cipher % 256>>
  IN  IF s.ssl_version = SSL2_VERSION THEN <<(s.cipher \div 65536) % 256>> \o low ELSE low

(* A session of which neither the suite nor its number is known is not       *)
(* written at all.                                                           *)
WritesOptional(s) ==
  When(s.key_arg # <<>>, 0, s.key_arg)
  \o When(s.time # 0, 1, s.time)
  \o When(s.timeout # 0, 2, s.timeout)
  \o When(s.peer # Missing /\ s.peer_sha256 = Missing, 3, s.peer)
  \o <<Element(4, s.sid_ctx)>>
  \o When(s.verify_result # 0, 5, s.verify_result)
  \o When(s.tlsext_hostname # Missing, 6, s.tlsext_hostname)
  \o When(s.psk_identity_hint # Missing, 7, s.psk_identity_hint)
  \o When(s.psk_identity # Missing, 8, s.psk_identity)
  \o When(s.tick_lifetime_hint > 0, 9, s.tick_lifetime_hint)
  \o When(s.tlsext_tick # Missing, 10, s.tlsext_tick)
  \o When(s.peer_sha256 # Missing, 13, s.peer_sha256)
  \o When(s.original_handshake_hash # <<>>, 14, s.original_handshake_hash)
i2d_SSL_SESSION(s) ==
  IF s.cipher = 0 THEN <<>>
  ELSE <<Element(Integer, SessionVersion), Element(Integer, s.ssl_version),
         Element(Octets, CipherBytes(s)), Element(Octets, s.session_id),
         Element(Octets, s.master_key)>> \o WritesOptional(s)
------------------------------------------------------------------------------
(* Reading. An optional element is taken if it is the next one, and elements *)
(* that are left at the end make the encoding bad.                           *)
Cut1(octets, most) == SubSeq(octets, 1, IF Len(octets) > most THEN most ELSE Len(octets))
IsSsl3(version) == version \div 256 >= SSL3_VERSION \div 256

(* The five that have to be there.                                           *)
CipherLength(version) == IF version = SSL2_VERSION THEN 3 ELSE 2
HasHead(es) ==
  /\ Len(es) >= 5
  /\ [i \in 1..5 |-> es[i].tag] = <<Integer, Integer, Octets, Octets, Octets>>
  /\ es[2].val = SSL2_VERSION \/ IsSsl3(es[2].val)
  /\ Len(es[3].val) = CipherLength(es[2].val)
  /\ es[3].val[Len(es[3].val) - 1] * 256 + es[3].val[Len(es[3].val)] \in KnownCiphers

(* Where each optional element is: the tags are asked for in this order.     *)
OptionalTagsAsHinted == <<0, 1, 2, 3, 4, 5, 6, 7, 8, 10, 9, 13, 14>>   \* mutant: the ticket first
OptionalTags == <<0, 1, 2, 3, 4, 5, 6, 7, 8, 9, 10, 13, 14>>
TakeOptional(r, tag) ==
  IF r.rest # <<>> /\ Head(r.rest).tag = tag
  THEN [r EXCEPT !.rest = Tail(@), !.got = @ @@ (tag :> Head(r.rest).val)] ELSE r
Optionals(es) ==
  FoldLeft(TakeOptional, [rest |-> SubSeq(es, 6, Len(es)), got |-> <<>>], OptionalTags)
Got(o, tag, default) == IF tag \in DOMAIN o.got THEN o.got[tag] ELSE default

(* tlsext_ticklen is still that of a new session when the hint is missing,   *)
(* the ticket is read afterwards.                                            *)
NewTicklen == 0
HintFor(o, id) == Got(o, 9, IF NewTicklen > 0 /\ id # <<>> THEN -1 ELSE 0)
PeerHash(o) == IF Len(Got(o, 13, <<>>)) = SHA256_SIZE THEN o.got[13] ELSE Missing
HandshakeHash(o) ==
  IF Len(Got(o, 14, <<>>)) < EVP_MAX_MD_SIZE THEN Got(o, 14, <<>>) ELSE <<>>

ReadSession(es, o, id) ==
  [ssl_version |-> es[2].val,
   cipher |-> (IF es[2].val = SSL2_VERSION THEN es[3].val[1] * 65536 ELSE 0)
              + Last(Front(es[3].val)) * 256 + Last(es[3].val),
   session_id |-> id, master_key |-> Cut1(es[5].val, MAX_MASTER_KEY),
   key_arg |-> Cut1(Got(o, 0, <<>>), MAX_KEY_ARG),
   time |-> Got(o, 1, Now), timeout |-> Got(o, 2, DefaultTimeout),
   peer |-> Got(o, 3, Missing), sid_ctx |-> Got(o, 4, <<>>),
   verify_result |-> Got(o, 5, 0), tlsext_hostname |-> Got(o, 6, Missing),
   psk_identity_hint |-> Got(o, 7, Missing), psk_identity |-> Got(o, 8, Missing),
   tick_lifetime_hint |-> HintFor(o, id), tlsext_tick |-> Got(o, 10, Missing),
   peer_sha256 |-> PeerHash(o), original_handshake_hash |-> HandshakeHash(o)]
(* mutant: an array is filled without regard to its size                     *)
ReadWithoutBounds(es, o) ==
  IF o.rest # <<>> THEN <<>> ELSE <<ReadSession(es, o, Cut1(es[4].val, MAX_SESSION_ID))>>
ReadWith(es, o) ==
  IF o.rest # <<>> \/ Len(Got(o, 4, <<>>)) > MAX_SID_CTX THEN <<>>
  ELSE <<ReadSession(es, o, Cut1(es[4].val, MAX_SESSION_ID))>>
d2i_SSL_SESSION(es) == IF HasHead(es) THEN ReadWith(es, Optionals(es)) ELSE <<>>
------------------------------------------------------------------------------
(* What is read may have been changed: an element in it is replaced by some  *)
(* others.                                                                   *)
Replaced(es, change) ==
  SubSeq(es, 1, change.at - 1) \o change.put \o SubSeq(es, change.at + 1, Len(es))
AsStored(s, change) == Replaced(i2d_SSL_SESSION(s), change)

SessionCodecNext ==
  /\ calc = NotCalculated
  /\ \/ \E s \in CodecSessions :
          Calculates("i2d_SSL_SESSION", s, i2d_SSL_SESSION(s))
     \/ \E s \in CodecStored, change \in CodecChanges :
          /\ s.cipher # 0 /\ change.at \in 1..Len(i2d_SSL_SESSION(s))
          /\ Calculates("d2i_SSL_SESSION", AsStored(s, change),
                        d2i_SSL_SESSION(AsStored(s, change)))

(* A session comes back as it was written, but for what the encoding does   *)
(* not carry: a time or timeout of zero, a certificate of which the hash is  *)
(* kept, a hint that is not positive, and a handshake hash of full size      *)
(* (d2i_SSL_SESSION takes only shorter ones).                                *)
Carried(s) ==
  [s EXCEPT !.time = IF @ = 0 THEN Now ELSE @,
            !.timeout = IF @ = 0 THEN DefaultTimeout ELSE @,
            !.peer = IF s.peer_sha256 # Missing THEN Missing ELSE @,
            !.tick_lifetime_hint = IF @ > 0 THEN @ ELSE 0,
            !.original_handshake_hash = IF Len(@) >= EVP_MAX_MD_SIZE THEN <<>> ELSE @]
SessionsComeBack ==
  Calculated("i2d_SSL_SESSION") /\ calc.out # <<>> => d2i_SSL_SESSION(calc.out) = <<Carried(calc.in)>>

(* Whatever is read fits the arrays of a session, and was either refused or *)
(* is a session that reads the same when it is written again: nothing that   *)
(* is accepted depends on the form in which it was stored.                   *)
FitsArrays(s) ==
  /\ Len(s.session_id) <= MAX_SESSION_ID /\ Len(s.master_key) <= MAX_MASTER_KEY
  /\ Len(s.key_arg) <= MAX_KEY_ARG /\ Len(s.sid_ctx) <= MAX_SID_CTX
  /\ s.peer_sha256 # Missing => Len(s.peer_sha256) = SHA256_SIZE
  /\ Len(s.original_handshake_hash) <= EVP_MAX_MD_SIZE
InOrder(es) ==
  \A i, j \in 6..Len(es) : i < j =>
     \E a, b \in DOMAIN OptionalTags : a < b /\ OptionalTags[a] = es[i].tag /\ OptionalTags[b] = es[j].tag
ReadingIsStable ==
  Calculated("d2i_SSL_SESSION") /\ calc.out # <<>> =>
    /\ FitsArrays(calc.out[1]) /\ InOrder(calc.in)
    /\ d2i_SSL_SESSION(i2d_SSL_SESSION(calc.out[1])) = <<Carried(calc.out[1])>>

SessionsAreKept == SessionsComeBack /\ ReadingIsStable
=============================================================================

----------------------------- MODULE CertRules ------------------------------
(* What one certificate, or a certificate and its issuer, say of            *)
(* themselves: who may have issued whom, what makes a certificate            *)
(* authority, the purposes and the trust settings (v3_purp.c, x509_trs.c,    *)
(* x509_cmp.c).  Names, keys, key identifiers and serial numbers are values  *)
(* that are only compared; an extension is the set of its bits, or Absent.   *)
(*                                                                           *)
(* Which revocation list speaks for a certificate, and how well: scope,      *)
(* scores, deltas and entries (x509_vfy.c, x_crl.c, v3_purp.c).              *)
(* A verification is a record: the chain, the certificate at which it is     *)
(* (at), the untrusted certificates and the parameters p.                    *)
EXTENDS Integers, FiniteSets, SequencesExt

Absent == {"absent"}
None == "none"

(* A certificate as d2i_X509 leaves it before its extensions are cached.    *)
Plain ==
  [subject |-> None, issuer |-> None, serial |-> 1, key |-> None, signed |-> None,
   version |-> 3, algorithm |-> "p256-sha256", curve |-> "p256",
   skid |-> None, akid |-> None, akserial |-> 0, akissuer |-> None,
   basic |-> None, pathlen |-> -1, proxy |-> FALSE, pcpathlen |-> -1,
   kusage |-> Absent, xkusage |-> Absent, xcritical |-> FALSE, nscert |-> Absent,
   critical |-> FALSE, freshest |-> FALSE, from |-> 1, until |-> 9,
   name |-> "a", permitted |-> Absent, excluded |-> {}, ids |-> {},
   points |-> <<>>, trusted |-> {}, rejected |-> {}]

(* X509_cmp compares digests of the encoding, which leaves the trust        *)
(* settings out.                                                            *)
SameCert(a, b) == [a EXCEPT !.trusted = {}, !.rejected = {}] = [b EXCEPT !.trusted = {}, !.rejected = {}]

(* A key identifier of the authority that names another key, serial number *)
(* or issuer; what is missing on either side matches.                       *)
X509_check_akid(issuer, akid) ==
  /\ akid.akid # None /\ issuer.skid # None => akid.akid = issuer.skid
  /\ akid.akserial # 0 => akid.akserial = issuer.serial
  /\ akid.akissuer # None => akid.akissuer = issuer.issuer

SelfIssued(c) == c.subject = c.issuer
SelfSigned(c) == SelfIssued(c) /\ X509_check_akid(c, c)

(* A path length without an authority, or a negative one (-2), counts as 0. *)
PathLength(c) ==
  IF c.basic = None \/ c.pathlen = -1 THEN -1
  ELSE IF c.pathlen < 0 \/ c.basic # "ca" THEN 0 ELSE c.pathlen

ku_reject(c, wanted) == c.kusage # Absent /\ c.kusage \cap wanted = {}
xku_reject(c, wanted) == c.xkusage # Absent /\ c.xkusage \cap wanted = {}
ns_reject(c, wanted) == c.nscert # Absent /\ c.nscert \cap wanted = {}

X509_check_issued(issuer, c) ==
  /\ issuer.subject = c.issuer
  /\ X509_check_akid(issuer, c)
  /\ ~ku_reject(issuer, IF c.proxy THEN {"digitalSignature"} ELSE {"keyCertSign"})

(* ------------------------------ authorities ---------------------------- *)
X509_check_ca(c) ==
  CASE ku_reject(c, {"keyCertSign"}) -> 0
    [] c.basic # None -> IF c.basic = "ca" THEN 1 ELSE 0
    [] c.version = 1 /\ SelfSigned(c) -> 3
    [] c.kusage # Absent -> 4
    [] c.nscert # Absent /\ c.nscert \cap {"sslCA", "smimeCA", "objCA"} # {} -> 5
    [] OTHER -> 0

AuthorityFor(c, kind) ==
  IF X509_check_ca(c) = 5 /\ kind \notin c.nscert THEN 0 ELSE X509_check_ca(c)

(* ------------------------------- purposes ------------------------------ *)
Yes(cond) == IF cond THEN 1 ELSE 0

SslClient(c, ca) ==
  IF xku_reject(c, {"clientAuth"}) THEN 0
  ELSE IF ca THEN AuthorityFor(c, "sslCA")
  ELSE Yes(~ku_reject(c, {"digitalSignature", "keyAgreement"}) /\ ~ns_reject(c, {"sslClient"}))

SslServer(c, ca) ==
  IF xku_reject(c, {"serverAuth", "sgc"}) THEN 0
  ELSE IF ca THEN AuthorityFor(c, "sslCA")
  ELSE Yes(/\ ~ns_reject(c, {"sslServer"})
           /\ ~ku_reject(c, {"digitalSignature", "keyEncipherment", "keyAgreement"}))

NsSslServer(c, ca) ==
  IF ~ca /\ ku_reject(c, {"keyEncipherment"}) THEN 0 ELSE SslServer(c, ca)

Smime(c, ca) ==
  IF xku_reject(c, {"emailProtection"}) THEN 0
  ELSE IF ca THEN AuthorityFor(c, "smimeCA")
  ELSE IF c.nscert = Absent \/ "smime" \in c.nscert THEN 1
  ELSE IF "sslClient" \in c.nscert THEN 2 ELSE 0

SmimeSign(c, ca) ==
  IF ~ca /\ ku_reject(c, {"digitalSignature", "nonRepudiation"}) THEN 0 ELSE Smime(c, ca)

SmimeEncrypt(c, ca) ==
  IF ~ca /\ ku_reject(c, {"keyEncipherment"}) THEN 0 ELSE Smime(c, ca)

CrlSign(c, ca) == IF ca THEN X509_check_ca(c) ELSE Yes(~ku_reject(c, {"cRLSign"}))

OcspHelper(c, ca) == IF ca THEN X509_check_ca(c) ELSE 1

(* The time stamp usage has to be there, alone and critical.                *)
TimestampSign(c, ca) ==
  IF ca THEN X509_check_ca(c)
  ELSE Yes(/\ c.kusage # Absent => /\ c.kusage # {}
                                   /\ c.kusage \subseteq {"digitalSignature", "nonRepudiation"}
           /\ c.xkusage = {"timeStamping"} /\ c.xcritical)

X509_check_purpose(purpose, c, ca) ==
  CASE purpose = "sslclient" -> SslClient(c, ca)
    [] purpose = "sslserver" -> SslServer(c, ca)
    [] purpose = "nssslserver" -> NsSslServer(c, ca)
    [] purpose = "smimesign" -> SmimeSign(c, ca)
    [] purpose = "smimeencrypt" -> SmimeEncrypt(c, ca)
    [] purpose = "crlsign" -> CrlSign(c, ca)
    [] purpose = "any" -> 1
    [] purpose = "ocsphelper" -> OcspHelper(c, ca)
    [] purpose = "timestampsign" -> TimestampSign(c, ca)

(* -------------------------------- trust -------------------------------- *)
TrustCompat(c) == IF SelfSigned(c) THEN "trusted" ELSE "untrusted"

ObjTrust(id, c) ==
  IF id \in c.rejected THEN "rejected"
  ELSE IF id \in c.trusted THEN "trusted" ELSE "untrusted"

X509_check_trust(c, id) ==
  CASE id = "default" ->
         IF ObjTrust("any", c) # "untrusted" THEN ObjTrust("any", c) ELSE TrustCompat(c)
    [] id = "compat" -> TrustCompat(c)
    [] id \in {"ocspSigning", "ocspRequest"} -> ObjTrust(id, c)
    [] OTHER -> IF c.trusted \cup c.rejected # {} THEN ObjTrust(id, c) ELSE TrustCompat(c)

(* ------------------------------- suite B ------------------------------- *)
(* los: the levels of security still allowed; a P-384 key ends the lower.   *)
CheckSuiteB(curve, algorithm, los) ==
  CASE curve = None -> "SUITE_B_INVALID_ALGORITHM"
    [] curve = "p384" ->
         IF algorithm \notin {None, "p384-sha384"} THEN "SUITE_B_INVALID_SIGNATURE_ALGORITHM"
         ELSE IF "192" \notin los THEN "SUITE_B_LOS_NOT_ALLOWED" ELSE "OK"
    [] curve = "p256" ->
         IF algorithm \notin {None, "p256-sha256"} THEN "SUITE_B_INVALID_SIGNATURE_ALGORITHM"
         ELSE IF "128" \notin los THEN "SUITE_B_LOS_NOT_ALLOWED" ELSE "OK"
    [] OTHER -> "SUITE_B_INVALID_CURVE"

LosAfter(curve, los) == IF curve = "p384" THEN los \ {"128"} ELSE los

AllReasons == {"key", "other"}

(* A list as d2i_X509_CRL leaves it; until = 0: no next update, base = 0: a *)
(* full list; point: the names of its distribution point, or Absent; an      *)
(* entry without an issuer has that of the entry before.                     *)
PlainCrl ==
  [issuer |-> None, signed |-> None, akid |-> None, akserial |-> 0, akissuer |-> None,
   from |-> 1, until |-> 9, critical |-> FALSE, freshest |-> FALSE, number |-> 1, base |-> 0,
   idp |-> FALSE, only |-> {}, indirect |-> FALSE, somereasons |-> FALSE, reasons |-> AllReasons,
   point |-> Absent, entries |-> <<>>]

IdpInvalid(crl) == crl.idp /\ Cardinality(crl.only) > 1
IdpPoint(crl) == IF crl.idp THEN crl.point ELSE Absent
IdpReasons(crl) == IF crl.idp /\ crl.somereasons THEN crl.reasons ELSE AllReasons
IdpHas(crl, what) == crl.idp /\ what \in crl.only

(* -------------------------------- times -------------------------------- *)
(* X509_cmp_time: 0 for a malformed time; a time that is now is past.       *)
X509_cmp_time(time, now) == IF time = -1 THEN 0 ELSE IF time <= now THEN -1 ELSE 1

Updated(crl, p) == X509_cmp_time(crl.from, p.time)
Expires(crl, p) == IF crl.until = 0 THEN 1 ELSE X509_cmp_time(crl.until, p.time)
CrlIsCurrent(crl, p) == Updated(crl, p) = -1 /\ Expires(crl, p) = 1

(* -------------------------------- entries ------------------------------ *)
EntryIssuer(crl, n) ==
  LET named == {k \in 1 .. n : crl.entries[k].issuer # None}
  IN IF named = {} THEN crl.issuer ELSE crl.entries[CHOOSE k \in named : \A j \in named : j <= k].issuer

(* The entries that speak of c: any of several may be found first.          *)
EntriesFor(crl, c) ==
  {n \in DOMAIN crl.entries : crl.entries[n].serial = c.serial /\ EntryIssuer(crl, n) = c.issuer}

(* --------------------------------- scope ------------------------------- *)
idp_check_dp(a, b) == a = Absent \/ b = Absent \/ a \cap b # {}

crldp_check_crlissuer(point, crl, named) ==
  IF point.issuers = Absent THEN named ELSE crl.issuer \in point.issuers

(* The reasons the list covers of c, {} when c is out of its scope; named:  *)
(* the list is by the issuer of c.                                          *)
ScopeReasons(c, crl, named) ==
  LET usable == SelectSeq(c.points, LAMBDA d : /\ crldp_check_crlissuer(d, crl, named)
                                               /\ idp_check_dp(d.name, IdpPoint(crl)))
  IN CASE IdpHas(crl, "attr") \/ IdpHas(crl, IF c.basic = "ca" THEN "user" ELSE "ca") -> Absent
       [] usable # <<>> -> IdpReasons(crl) \cap Head(usable).reasons
       [] IdpPoint(crl) = Absent /\ named -> IdpReasons(crl)
       [] OTHER -> Absent

(* --------------------------------- score ------------------------------- *)
ScoreBits == [nocritical |-> 256, scope |-> 128, time |-> 64, name |-> 32,
           cert |-> 16, path |-> 8, akid |-> 4, delta |-> 2]
ScoreOf(s) == SumSet({ScoreBits[k] : k \in s})

(* The certificate of the issuer of the list and what it adds to the score: *)
(* the issuer of the certificate, one above it, or an untrusted one.        *)
crl_akid_check(v, crl, named) ==
  LET next == IF v.at = Len(v.chain) THEN v.at ELSE v.at + 1
      Speaks(c) == c.subject = crl.issuer /\ X509_check_akid(c, crl)
      above == SelectSeq(SubSeq(v.chain, next + 1, Len(v.chain)), Speaks)
      others == SelectSeq(v.untrusted, Speaks)
  IN CASE named /\ X509_check_akid(v.chain[next], crl) ->
            [adds |-> {"akid", "cert", "path"}, issuer |-> <<v.chain[next]>>]
       [] above # <<>> -> [adds |-> {"akid", "path"}, issuer |-> <<Head(above)>>]
       [] v.p.extended /\ others # <<>> -> [adds |-> {"akid"}, issuer |-> <<Head(others)>>]
       [] OTHER -> [adds |-> {}, issuer |-> <<>>]

(* A list that cannot be processed at all.                                  *)
CrlRefused(v, crl, reasons) ==
  \/ IdpInvalid(crl)
  \/ IF v.p.extended
     THEN IF crl.idp /\ crl.somereasons THEN crl.reasons \subseteq reasons ELSE crl.base # 0
     ELSE crl.idp /\ (crl.indirect \/ crl.somereasons)

(* The score of a list for the certificate at v.at, {} when it is refused.  *)
get_crl_score(v, crl, reasons) ==
  LET c == v.chain[v.at]
      named == c.issuer = crl.issuer
      by == crl_akid_check(v, crl, named)
      scope == ScopeReasons(c, crl, named)
      nothing == [score |-> {}, issuer |-> <<>>, reasons |-> reasons]
  IN IF \/ CrlRefused(v, crl, reasons)
        \/ ~named /\ ~(crl.idp /\ crl.indirect)
        \/ by.issuer = <<>>
        \/ scope # Absent /\ scope \subseteq reasons
     THEN nothing
     ELSE [score |-> by.adds
                       \cup (IF named THEN {"name"} ELSE {})
                       \cup (IF crl.critical THEN {} ELSE {"nocritical"})
                       \cup (IF CrlIsCurrent(crl, v.p) THEN {"time"} ELSE {})
                       \cup (IF scope # Absent THEN {"scope"} ELSE {}),
           issuer |-> by.issuer,
           reasons |-> IF scope # Absent THEN reasons \cup scope ELSE reasons]

(* -------------------------------- deltas ------------------------------- *)
check_delta_base(delta, base) ==
  /\ delta.base # 0 /\ base.number # 0
  /\ base.issuer = delta.issuer
  /\ <<delta.akid, delta.akserial, delta.akissuer>> = <<base.akid, base.akserial, base.akissuer>>
  /\ <<delta.idp, delta.only, delta.point>> = <<base.idp, base.only, base.point>>
  /\ delta.base <= base.number /\ delta.number > base.number

(* The first delta in the list that fits; none unless a certificate or the *)
(* base says that there are some.                                           *)
DeltasFor(v, base, crls) ==
  IF v.p.deltas /\ (v.chain[v.at].freshest \/ base.freshest)
  THEN SelectSeq(crls, LAMBDA d : check_delta_base(d, base)) ELSE <<>>

(* What is found so far: lists of at most one element for what may miss.    *)
NoCrl(reasons) == [crl |-> <<>>, delta |-> <<>>, issuer |-> <<>>, score |-> {}, reasons |-> reasons]

(* The best of crls, when it is better than what is found so far; the       *)
(* first delta in crls goes with it.                                        *)
WithDelta(v, best, deltas) ==
  [best EXCEPT !.delta = IF deltas = <<>> THEN <<>> ELSE <<Head(deltas)>>,
               !.score = IF deltas # <<>> /\ CrlIsCurrent(Head(deltas), v.p)
                         THEN @ \cup {"delta"} ELSE @]

get_crl_sk(v, found, crls) ==
  LET Taken(best, crl, new) ==
        IF ScoreOf(new.score) > ScoreOf(best.score)
        THEN [best EXCEPT !.crl = <<crl>>, !.issuer = new.issuer, !.score = new.score,
                          !.reasons = new.reasons]
        ELSE best
      Better(best, crl) == Taken(best, crl, get_crl_score(v, crl, found.reasons))
      Ended(best) == IF best.crl = <<>> THEN found
                     ELSE WithDelta(v, best, DeltasFor(v, best.crl[1], crls))
  IN Ended(FoldLeft(Better, [found EXCEPT !.crl = <<>>], crls))

(* The lists given to the verification come first; those of the store are   *)
(* looked at, by the name of the issuer, only if none is perfect.           *)
get_crl_delta(v, reasons) ==
  LET Stored(near) ==
        IF ScoreOf(near.score) >= ScoreOf({"nocritical", "time", "scope"}) THEN near
        ELSE get_crl_sk(v, near, SelectSeq(v.storecrls, LAMBDA l : l.issuer = v.chain[v.at].issuer))
  IN Stored(get_crl_sk(v, NoCrl(reasons), v.crls))
=============================================================================

-------------------------- MODULE CertVerification --------------------------
(* X509_verify_cert: the chain that is built for a certificate from the      *)
(* untrusted ones and the store, and every check of it (x509_vfy.c,          *)
(* x509_lu.c).  A request is a record: the certificate, the untrusted ones,  *)
(* the store, its lists and those given with the request, the parameters p,  *)
(* and accept, the errors the callback overrides.  The state of a            *)
(* verification is what the code keeps: the chain, how many of it are        *)
(* untrusted, what the callback was told, the value ret of ok, and whether   *)
(* it is still going.  X509_V_FLAG_CB_ISSUER_CHECK, missing DSA parameters   *)
(* and failing allocations are left out, and the callback never refuses      *)
(* what is not an error.                                                     *)
(*                                                                           *)
(* What a verified certificate is, said of whole paths rather than of the    *)
(* steps of X509_verify_cert, and that the two agree.                        *)
EXTENDS CertRules, Calculation

CONSTANTS RevocationPaths,   \* paths whose certificates may be revoked
          RevocationLists,   \* sequences of lists for them
          RevocationParams,  \* the parameters of those verifications
          OtherSigners,      \* untrusted certificates off the path
          OtherRoots,        \* roots of the store no path leads to
          UpperLists,        \* lists for the certificates above the first
          CertRequests,      \* paths of four certificates, from the one to verify upwards,
                             \* with the parameters of their verification
          CertErrors         \* the errors a callback overrides when it overrides any

(* ------------------------------- problems ------------------------------ *)
Override(s, q, err, at) ==
  [s EXCEPT !.told = Append(@, <<err, at>>),
            !.ret = IF err \in q.accept THEN 1 ELSE 0,
            !.going = err \in q.accept]

Problem(s, q, cond, err, at) == IF s.going /\ cond THEN Override(s, q, err, at) ELSE s

(* What is found at one place, in order: conditions with their errors.      *)
Problems(s, q, found, at) ==
  FoldLeft(LAMBDA t, f : Problem(t, q, f[1], f[2], at), s, found)

(* A stage that ends well leaves ok set.                                    *)
Passed(s) == IF s.going THEN [s EXCEPT !.ret = 1] ELSE s

(* ------------------------------- the store ----------------------------- *)
(* X509_STORE_add_cert: what is there already is not added again.           *)
StoreOf(certs) ==
  FoldLeft(LAMBDA st, c : IF \E k \in DOMAIN st : SameCert(st[k], c) THEN st ELSE Append(st, c),
           <<>>, certs)

find_issuer(certs, c) == SelectSeq(certs, LAMBDA i : X509_check_issued(i, c))

(* The first certificate of the store, in its order, that may have issued   *)
(* c; a sequence of at most one.                                            *)
get1_issuer(q, c) ==
  LET found == find_issuer(q.store, c) IN IF found = <<>> THEN <<>> ELSE <<Head(found)>>

lookup_cert_match(q, c) == SelectSeq(q.store, LAMBDA i : SameCert(i, c))

(* ------------------------------ the chain ------------------------------ *)
Started(q) ==
  [chain |-> <<q.cert>>, last |-> 1, pool |-> q.untrusted, root |-> <<>>, bad |-> FALSE,
   told |-> <<>>, ret |-> 0, going |-> TRUE]

(* last_untrusted grows with the untrusted certificates that are added.     *)
RECURSIVE AddUntrusted(_, _)
AddUntrusted(s, q) ==
  LET c == Last(s.chain)
      found == find_issuer(s.pool, c)
      asked == q.p.first /\ q.p.depth >= Len(s.chain) /\ ~SelfSigned(c)
      known == asked /\ get1_issuer(q, c) # <<>>
      t == IF asked THEN [s EXCEPT !.ret = Yes(known)] ELSE s
  IN IF q.p.depth < Len(s.chain) \/ SelfSigned(c) \/ known \/ found = <<>> THEN t
     ELSE AddUntrusted([t EXCEPT !.chain = Append(@, found[1]), !.last = @ + 1,
                                 !.pool = RemoveFirst(@, found[1])], q)

TakeSelfSignedByName(s, q) ==      \* fault: any certificate of its name is enough
  LET c == Last(s.chain)
  IN CASE ~SelfSigned(c) -> s
       [] Len(s.chain) > 1 ->
            [s EXCEPT !.chain = Front(@), !.last = @ - 1, !.root = <<c>>]
       [] get1_issuer(q, c) # <<>> -> [s EXCEPT !.last = 0, !.ret = 1]
       [] OTHER -> Override([s EXCEPT !.bad = TRUE], q, "DEPTH_ZERO_SELF_SIGNED_CERT", 1)

(* A self-signed certificate alone has to be in the store; at the end of a  *)
(* longer chain it is set aside.                                            *)
TakeSelfSigned(s, q) ==
  LET c == Last(s.chain)
      known == get1_issuer(q, c)
  IN CASE ~SelfSigned(c) -> s
       [] Len(s.chain) > 1 ->
            [s EXCEPT !.chain = Front(@), !.last = @ - 1, !.root = <<c>>]
       [] known # <<>> /\ SameCert(c, known[1]) ->
            [s EXCEPT !.chain = known, !.last = 0, !.ret = 1]
       [] OTHER -> Override([s EXCEPT !.bad = TRUE], q, "DEPTH_ZERO_SELF_SIGNED_CERT", 1)

RECURSIVE AddTrusted(_, _)
AddTrusted(s, q) ==
  LET c == Last(s.chain)
      known == get1_issuer(q, c)
  IN IF ~s.going \/ q.p.depth < Len(s.chain) \/ SelfSigned(c) THEN s
     ELSE IF known = <<>> THEN [s EXCEPT !.ret = 0]
     ELSE AddTrusted([s EXCEPT !.chain = @ \o known, !.ret = 1], q)

(* -------------------------------- trust -------------------------------- *)
Verdict(s, q, i) == X509_check_trust(s.chain[i], q.p.trust)

(* A rejection the callback does not override ends the verification with    *)
(* whatever ok is.                                                          *)
Rejected(s, q, i) == [Override(s, q, "CERT_REJECTED", i) EXCEPT !.ret = s.ret]

(* The trusted certificates up to the first with explicit trust; t is the   *)
(* answer.                                                                  *)
check_trust(s, q) ==
  LET above == s.last + 1 .. Len(s.chain)
      trusts == {i \in above : Verdict(s, q, i) = "trusted"}
      Look(u, i) ==
        IF u.going /\ Verdict(s, q, i) = "rejected" /\ \A j \in trusts : i < j
        THEN Rejected(u, q, i) ELSE u
      told == FoldLeft(Look, s, [k \in 1 .. Len(s.chain) - s.last |-> s.last + k])
      mine == lookup_cert_match(q, s.chain[1])
  IN CASE ~told.going -> [s |-> told, t |-> "rejected"]
       [] trusts # {} -> [s |-> told, t |-> "trusted"]
       [] q.p.partial /\ above # {} -> [s |-> told, t |-> "trusted"]
       [] q.p.partial /\ above = {} /\ mine # <<>> ->
            [s |-> [told EXCEPT !.chain = <<mine[1]>> \o Tail(@), !.last = 0], t |-> "trusted"]
       [] OTHER -> [s |-> told, t |-> "untrusted"]

(* Nobody trusted: what is missing is the issuer of the last certificate,   *)
(* or trust in the self-signed one that was set aside.                      *)
Untrusted(s, q) ==
  LET n == Len(s.chain)
  IN IF s.root # <<>> /\ X509_check_issued(s.root[1], Last(s.chain))
     THEN Override([s EXCEPT !.chain = @ \o s.root, !.last = n + 1, !.bad = TRUE, !.root = <<>>], q,
                   "SELF_SIGNED_CERT_IN_CHAIN", n + 1)
     ELSE Override([s EXCEPT !.bad = TRUE], q,
                   IF s.last >= n THEN "UNABLE_TO_GET_ISSUER_CERT_LOCALLY"
                   ELSE "UNABLE_TO_GET_ISSUER_CERT", n)

CheckTrust(s, q) ==
  LET c == check_trust(s, q)
  IN IF ~s.going THEN s
     ELSE IF c.t # "untrusted" \/ c.s.bad THEN c.s ELSE Untrusted(c.s, q)

(* ------------------------------ extensions ----------------------------- *)
(* must: what the certificate has to be; plain: certificates so far that    *)
(* are not self-issued; proxies: proxy certificates so far.                 *)
WrongAuthority(c, must, p) ==
  LET ca == X509_check_ca(c)
  IN CASE must = "any" -> p.strict /\ ca \notin {0, 1}
       [] must = "end" -> ca # 0
       [] must = "ca" -> ca = 0 \/ (p.strict /\ ca # 1)

WrongPurpose(c, must, q) ==
  LET fits == X509_check_purpose(IF q.parent THEN "crlsign" ELSE q.p.purpose, c, must = "ca")
  IN q.p.purpose # None /\ (fits = 0 \/ (q.p.strict /\ fits # 1))

PathTooLongByLeaf(c, i, plain, proxies) ==     \* fault: the end entity counts
  /\ i > 2 /\ ~SelfIssued(c) /\ PathLength(c) # -1 /\ plain > PathLength(c) + proxies

PathTooLong(c, i, plain, proxies) ==
  /\ i > 2 /\ ~SelfIssued(c) /\ PathLength(c) # -1
  /\ plain > PathLength(c) + proxies + 1

CheckExtensionsOf(a, q, i) ==
  LET c == a.s.chain[i]
  IN [s |-> Problems(a.s, q,
              << <<c.critical /\ ~q.p.critical, "UNHANDLED_CRITICAL_EXTENSION">>,
                 <<c.proxy /\ (q.parent \/ ~q.p.proxies), "PROXY_CERTIFICATES_NOT_ALLOWED">>,
                 <<WrongAuthority(c, a.must, q.p),
                   IF a.must = "end" THEN "INVALID_NON_CA" ELSE "INVALID_CA">>,
                 <<WrongPurpose(c, a.must, q), "INVALID_PURPOSE">>,
                 <<PathTooLong(c, i, a.plain, a.proxies), "PATH_LENGTH_EXCEEDED">>,
                 <<c.proxy /\ c.pcpathlen # -1 /\ i - 1 > c.pcpathlen,
                   "PROXY_PATH_LENGTH_EXCEEDED">> >>, i),
      must |-> IF c.proxy THEN "end" ELSE "ca",
      plain |-> a.plain + Yes(~SelfIssued(c)), proxies |-> a.proxies + Yes(c.proxy)]

check_chain_extensions(s, q) ==
  FoldLeft(LAMBDA a, i : CheckExtensionsOf(a, q, i),
           [s |-> s, must |-> "any", plain |-> 0, proxies |-> 0],
           [i \in 1 .. s.last |-> i]).s

(* -------------------------- names and identity ------------------------- *)
(* A name is a value and a subtree a set of them.                           *)
NameConstraint(c, over) ==
  IF over.permitted # Absent /\ c.name \notin over.permitted THEN "PERMITTED_VIOLATION"
  ELSE IF c.name \in over.excluded THEN "EXCLUDED_VIOLATION" ELSE "OK"

Downwards(n, m) == [k \in 1 .. n - m + 1 |-> n + 1 - k]   \* n .. m

check_name_constraints(s, q) ==
  LET n == Len(s.chain)
      Below(t, i, j) ==
        LET rv == NameConstraint(t.chain[i], t.chain[j]) IN Problem(t, q, rv # "OK", rv, i)
      Of(t, i) ==
        IF i > 1 /\ SelfIssued(t.chain[i]) THEN t
        ELSE FoldLeft(LAMBDA u, j : Below(u, i, j), t, Downwards(n, i + 1))
  IN FoldLeft(Of, s, Downwards(n, 1))

check_id(s, q) ==
  FoldLeft(LAMBDA t, id : Problem(t, q, id \in q.p.ids /\ id \notin q.cert.ids, id, 1), s,
           <<"HOSTNAME_MISMATCH", "EMAIL_MISMATCH", "IP_ADDRESS_MISMATCH">>)

(* ------------------------------ revocation ----------------------------- *)
CheckCrlTime(s, q, crl, delta, at) ==
  Problems(s, q, << <<Updated(crl, q.p) = 0, "ERROR_IN_CRL_LAST_UPDATE_FIELD">>,
                    <<Updated(crl, q.p) > 0, "CRL_NOT_YET_VALID">>,
                    <<Expires(crl, q.p) = 0, "ERROR_IN_CRL_NEXT_UPDATE_FIELD">>,
                    <<Expires(crl, q.p) < 0 /\ ~delta, "CRL_HAS_EXPIRED">> >>, at)

RECURSIVE X509_verify_cert(_)

(* The issuer of a list off the path is verified in the same way, once, and *)
(* has to end in the same certificate.                                      *)
check_crl_path(s, q, issuer, at) ==
  LET Leads(sub) == sub.ret = 1 /\ SameCert(Last(sub.chain), Last(s.chain))
      Told(sub) == Problem([s EXCEPT !.told = @ \o sub.told], q, ~Leads(sub),
                           "CRL_PATH_VALIDATION_ERROR", at)
  IN IF q.parent THEN Problem(s, q, TRUE, "CRL_PATH_VALIDATION_ERROR", at)
     ELSE Told(X509_verify_cert([q EXCEPT !.cert = issuer, !.parent = TRUE]))

check_crl(s, q, crl, f, at) ==
  LET issuer == f.issuer[1]
      full == crl.base = 0
      Fits(t) ==
        Problems(t, q, << <<full /\ ku_reject(issuer, {"cRLSign"}), "KEYUSAGE_NO_CRL_SIGN">>,
                          <<full /\ "scope" \notin f.score, "DIFFERENT_CRL_SCOPE">> >>, at)
      Pathed(t) ==
        IF t.going /\ full /\ "path" \notin f.score THEN check_crl_path(t, q, issuer, at) ELSE t
      Timed(t) ==
        IF "time" \in f.score THEN t ELSE CheckCrlTime(t, q, crl, "delta" \in f.score, at)
  IN Problems(Timed(Pathed(Fits(s))), q,
              << <<issuer.key = None, "UNABLE_TO_DECODE_ISSUER_PUBLIC_KEY">>,
                 <<issuer.key # None /\ crl.signed # issuer.key, "CRL_SIGNATURE_FAILURE">> >>, at)

(* The entry n of the list, or 0; removed ends the matter.                  *)
cert_crl(s, q, crl, n, at) ==
  Problems(s, q,
           << <<crl.critical /\ ~q.p.critical, "UNHANDLED_CRITICAL_CRL_EXTENSION">>,
              <<n # 0 /\ ~crl.entries[n].remove, "CERT_REVOKED">> >>, at)

EntryFor(crl, c) ==
  LET e == EntriesFor(crl, c) IN IF e = {} THEN 0 ELSE CHOOSE n \in e : \A m \in e : n <= m

LooksUp(s, q, crl, at) == cert_crl(s, q, crl, EntryFor(crl, s.chain[at]), at)

(* The base list, then the delta; the entries of the delta come first.      *)
CheckLists(s, q, f, at) ==
  LET removed == \E d \in Range(f.delta) :
                   EntryFor(d, s.chain[at]) # 0 /\ d.entries[EntryFor(d, s.chain[at])].remove
      InDelta(t) == FoldLeft(LAMBDA u, d : LooksUp(check_crl(u, q, d, f, at), q, d, at), t, f.delta)
      InBase(t) == IF removed THEN t ELSE LooksUp(t, q, f.crl[1], at)
  IN InBase(InDelta(check_crl(s, q, f.crl[1], f, at)))

ListsFor(s, q, reasons, at) ==
  get_crl_delta([chain |-> s.chain, at |-> at, untrusted |-> q.untrusted, p |-> q.p,
                 crls |-> q.crls, storecrls |-> q.storecrls], reasons)

CheckCertOnce(s, q, reasons, at) ==      \* fault: the first list is enough
  LET With(f) == IF f.crl = <<>> THEN Problem(s, q, TRUE, "UNABLE_TO_GET_CRL", at)
                 ELSE CheckLists(s, q, f, at)
  IN IF s.going THEN With(ListsFor(s, q, reasons, at)) ELSE s

(* Lists are taken until every reason is covered; one that adds no reason   *)
(* is the last.                                                             *)
RECURSIVE CheckCert(_, _, _, _)
CheckCert(s, q, reasons, at) ==
  LET With(f) ==
        CASE f.crl = <<>> -> Problem(s, q, TRUE, "UNABLE_TO_GET_CRL", at)
          [] f.crl # <<>> /\ f.reasons = reasons ->
               Problem(CheckLists(s, q, f, at), q, TRUE, "UNABLE_TO_GET_CRL", at)
          [] OTHER -> CheckCert(CheckLists(s, q, f, at), q, f.reasons, at)
  IN IF reasons = AllReasons \/ ~s.going THEN s ELSE With(ListsFor(s, q, reasons, at))

check_revocation(s, q) ==
  LET last == CASE q.p.revoked = "all" -> Len(s.chain)
                [] q.p.revoked = "leaf" /\ ~q.parent -> 1
                [] OTHER -> 0
  IN FoldLeft(LAMBDA t, i : CheckCert(t, q, {}, i), s, [i \in 1 .. last |-> i])

(* ------------------------------- suite B ------------------------------- *)
(* The key of each certificate with the signature of the one below; the     *)
(* first problem counts, at the certificate that has the wrong signature.   *)
SuiteBLos(s, q, i) == FoldLeft(LAMBDA los, c : LosAfter(c.curve, los), q.p.suiteb, SubSeq(s.chain, 1, i))

SuiteBProblem(s, q, i) ==
  LET c == s.chain[IF i > Len(s.chain) THEN Len(s.chain) ELSE i]
  IN IF i <= Len(s.chain) /\ c.version # 3 THEN "SUITE_B_INVALID_VERSION"
     ELSE CheckSuiteB(c.curve, IF i = 1 THEN None ELSE s.chain[i - 1].algorithm,
                      SuiteBLos(s, q, IF i > Len(s.chain) THEN Len(s.chain) ELSE i - 1))

check_suiteb(s, q) ==
  LET n == Len(s.chain)
      wrong == {i \in 1 .. n + 1 : SuiteBProblem(s, q, i) # "OK"}
      i == CHOOSE k \in wrong : \A j \in wrong : k <= j
      rv == SuiteBProblem(s, q, i)
      below == rv \in {"SUITE_B_INVALID_SIGNATURE_ALGORITHM", "SUITE_B_LOS_NOT_ALLOWED"} /\ i > 1
  IN IF q.p.suiteb = {} \/ wrong = {} \/ ~s.going THEN s
     ELSE Override(s, q, IF rv = "SUITE_B_LOS_NOT_ALLOWED" /\ SuiteBLos(s, q, i - 1) # q.p.suiteb
                         THEN "SUITE_B_CANNOT_SIGN_P_384_WITH_P_256" ELSE rv,
                   IF below THEN i - 1 ELSE i)

(* ------------------------------ signatures ----------------------------- *)
check_cert_time(s, q, c, i) ==
  LET from == X509_cmp_time(c.from, q.p.time)
      until == X509_cmp_time(c.until, q.p.time)
  IN Problems(s, q, << <<from = 0, "ERROR_IN_CERT_NOT_BEFORE_FIELD">>,
                       <<from > 0, "CERT_NOT_YET_VALID">>,
                       <<until = 0, "ERROR_IN_CERT_NOT_AFTER_FIELD">>,
                       <<until < 0, "CERT_HAS_EXPIRED">> >>, i)

(* From the top downwards; the signature of the top only when it signed     *)
(* itself and that is asked for, and nothing at all of a top that is        *)
(* neither self-issued nor to be trusted as part of a chain.                *)
internal_verify(s, q) ==
  LET n == Len(s.chain)
      own == X509_check_issued(s.chain[n], s.chain[n])
      from == IF own \/ q.p.partial THEN n ELSE n - 1
      Signature(t, i) ==
        LET by == s.chain[IF i = n THEN n ELSE i + 1]
            wanted == i < n \/ (own /\ q.p.ss)
        IN Problems(t, q,
             << <<wanted /\ by.key = None, "UNABLE_TO_DECODE_ISSUER_PUBLIC_KEY">>,
                <<wanted /\ by.key # None /\ s.chain[i].signed # by.key,
                  "CERT_SIGNATURE_FAILURE">> >>, i)
  IN IF from = 0 THEN Problem(s, q, TRUE, "UNABLE_TO_VERIFY_LEAF_SIGNATURE", 1)
     ELSE FoldLeft(LAMBDA t, i : check_cert_time(Signature(t, i), q, s.chain[i], i), s,
                   Downwards(from, 1))

X509_verify_cert(q) ==
  LET Built(s) == CheckTrust(AddTrusted(TakeSelfSigned(AddUntrusted(s, q), q), q), q)
      Fits(s) == Passed(check_name_constraints(Passed(check_chain_extensions(s, q)), q))
      Stands(s) == Passed(check_revocation(Passed(check_id(s, q)), q))
  IN Passed(internal_verify(Passed(check_suiteb(Stands(Fits(Built(Started(q)))), q)), q))

(* Where the certificates of a path come from: what is verified, the        *)
(* untrusted ones, and the store.                                           *)
Placed(x) ==
  << <<x[1], <<x[2], x[3]>>, <<x[4]>>>>,
     <<x[1], <<x[4], x[3], x[2]>>, <<x[4]>>>>,
     <<x[1], <<x[2], x[3], x[4]>>, <<>>>>,
     <<x[1], <<>>, <<x[4], x[3], x[2]>>>>,
     <<x[1], <<x[2], x[4]>>, <<x[3]>>>>,
     <<x[1], <<x[2], x[3]>>, <<x[1]>>>>,
     <<x[4], <<x[3]>>, <<x[4]>>>>,
     <<x[4], <<>>, <<[x[4] EXCEPT !.until = 8]>>>>,
     <<x[3], <<>>, <<>>>> >>

Request(at, p, accept, crls, storecrls) ==
  [cert |-> at[1], untrusted |-> at[2], store |-> StoreOf(at[3]), p |-> p, accept |-> accept,
   crls |-> crls, storecrls |-> storecrls, parent |-> FALSE]

Verifies(q) ==
  LET Answer(s) == [chain |-> s.chain, last |-> s.last, told |-> s.told, ret |-> s.ret]
  IN Calculates("X509_verify_cert", q, Answer(X509_verify_cert(q)))

VerifyPath ==
  \E r \in CertRequests :
    \E x \in r.paths, k \in 1 .. 9, p \in r.params, accept \in {{}, CertErrors} :
      Verifies(Request(Placed(x)[k], p, accept, <<>>, <<>>))

(* The lists come with the request, from the store, or from both.           *)
VerifyRevocation ==
  \E x \in RevocationPaths, l \in RevocationLists, p \in RevocationParams,
     k \in 0 .. 2, accept \in {{}, CertErrors} :
    /\ k = 2 => Len(l) = 2
    /\ LET given == CASE k = 0 -> <<>> [] k = 1 -> l [] k = 2 -> <<l[1]>>
           stored == (CASE k = 0 -> l [] k = 1 -> <<>> [] k = 2 -> <<l[2]>>)
                      \o (IF p.revoked = "all" THEN UpperLists ELSE <<>>)
       IN Verifies(Request(<<x[1], <<x[2], x[3]>> \o OtherSigners, <<x[4]>> \o OtherRoots>>, p,
                           accept, given, stored))

CertNext == VerifyPath \/ VerifyRevocation

(* --------------------------- a path and its faults --------------------- *)
(* chain is a path from the certificate upwards, the first last of it are   *)
(* not trusted; every fault is the error and the place it is reported at.   *)
Places(chain) == DOMAIN chain

(* What a certificate above another one has to be, and what a chain may     *)
(* begin with, as the comment at must_be_ca says.                           *)
MaySign(c, p) ==
  /\ c.kusage = Absent \/ "keyCertSign" \in c.kusage
  /\ \/ c.basic = "ca"
     \/ /\ c.basic = None /\ ~p.strict
        /\ \/ c.version = 1 /\ SelfSigned(c)
           \/ c.kusage # Absent
           \/ c.nscert # Absent /\ \E k \in {"sslCA", "smimeCA", "objCA"} : k \in c.nscert

LegacySigner(c) == MaySign(c, [strict |-> FALSE]) /\ c.basic # "ca"

AuthorityFaults(chain, last, q) ==
  {<<"INVALID_CA", i>> : i \in {j \in 1 .. last :
      IF j = 1 THEN q.p.strict /\ LegacySigner(chain[1])
      ELSE ~chain[j - 1].proxy /\ ~MaySign(chain[j], q.p)}}
  \cup {<<"INVALID_NON_CA", i>> : i \in {j \in 2 .. last :
          chain[j - 1].proxy /\ MaySign(chain[j], [strict |-> FALSE])}}

(* Every use a certificate lists has to include the purpose; an authority   *)
(* is checked as one.                                                       *)
PurposeFaults(chain, last, q) ==
  {<<"INVALID_PURPOSE", i>> : i \in {j \in 1 .. last :
      LET c == chain[j]
          signs == j > 1 /\ ~chain[j - 1].proxy
      IN CASE q.p.purpose = None -> FALSE
           [] q.p.purpose = "any" -> FALSE
           [] q.p.purpose = "sslserver" ->
                \/ c.xkusage # Absent /\ "serverAuth" \notin c.xkusage /\ "sgc" \notin c.xkusage
                \/ IF signs
                   THEN \/ ~MaySign(c, q.p)
                        \/ /\ c.basic = None /\ c.kusage = Absent /\ ~(c.version = 1 /\ SelfSigned(c))
                           /\ "sslCA" \notin c.nscert
                   ELSE \/ c.nscert # Absent /\ "sslServer" \notin c.nscert
                        \/ c.kusage # Absent
                           /\ \A k \in {"digitalSignature", "keyEncipherment", "keyAgreement"} : k \notin c.kusage}}

(* The authorities between one and the end, other than self-issued ones,    *)
(* are no more than it allows; proxies below the end entity do not count.   *)
LengthFaults(chain, last) ==
  {<<"PATH_LENGTH_EXCEEDED", i>> : i \in {j \in 3 .. last :
      LET between == {k \in 2 .. j - 1 : ~SelfIssued(chain[k]) /\ ~chain[k - 1].proxy}
      IN /\ ~SelfIssued(chain[j]) /\ PathLength(chain[j]) # -1
         /\ Cardinality(between) > PathLength(chain[j])}}
  \cup {<<"PROXY_PATH_LENGTH_EXCEEDED", i>> : i \in {j \in 1 .. last :
          chain[j].proxy /\ chain[j].pcpathlen # -1 /\ j - 1 > chain[j].pcpathlen}}

ExtensionFaults(chain, last, q) ==
  {<<"UNHANDLED_CRITICAL_EXTENSION", i>> : i \in {j \in 1 .. last : chain[j].critical /\ ~q.p.critical}}
  \cup {<<"PROXY_CERTIFICATES_NOT_ALLOWED", i>> : i \in {j \in 1 .. last : chain[j].proxy /\ ~q.p.proxies}}

NameFaults(chain, q) ==
  {<<rv, i>> \in {"PERMITTED_VIOLATION", "EXCLUDED_VIOLATION"} \X Places(chain) :
     /\ i = 1 \/ ~SelfIssued(chain[i])
     /\ \E j \in Places(chain) : j > i /\ NameConstraint(chain[i], chain[j]) = rv}
  \cup {<<id, 1>> : id \in q.p.ids \ q.cert.ids}

(* A top that did not sign itself is only looked at in partial chains.      *)
Dated(chain, q) ==
  {i \in Places(chain) : i < Len(chain) \/ q.p.partial \/ X509_check_issued(chain[i], chain[i])}

TimeFaults(chain, q) ==
  {<<"ERROR_IN_CERT_NOT_BEFORE_FIELD", i>> : i \in {j \in Dated(chain, q) : chain[j].from = -1}}
  \cup {<<"CERT_NOT_YET_VALID", i>> : i \in {j \in Dated(chain, q) : chain[j].from > q.p.time}}
  \cup {<<"ERROR_IN_CERT_NOT_AFTER_FIELD", i>> : i \in {j \in Dated(chain, q) : chain[j].until = -1}}
  \cup {<<"CERT_HAS_EXPIRED", i>> : i \in {j \in Dated(chain, q) :
          chain[j].until # -1 /\ chain[j].until <= q.p.time}}

SignatureFaults(chain, q) ==
  LET n == Len(chain)
      signed == {i \in Places(chain) : i < n \/ (X509_check_issued(chain[n], chain[n]) /\ q.p.ss)}
      By(i) == chain[IF i < n THEN i + 1 ELSE n]
  IN {<<"UNABLE_TO_DECODE_ISSUER_PUBLIC_KEY", i>> : i \in {j \in signed : By(j).key = None}}
     \cup {<<"CERT_SIGNATURE_FAILURE", i>> : i \in {j \in signed :
             By(j).key # None /\ chain[j].signed # By(j).key}}

(* A lone certificate that is neither self-signed nor a partial chain has   *)
(* nothing to be verified with.                                             *)
Unverifiable(chain, q) ==
  Len(chain) = 1 /\ ~q.p.partial /\ ~X509_check_issued(chain[1], chain[1])

Faults(chain, last, q) ==
  AuthorityFaults(chain, last, q) \cup PurposeFaults(chain, last, q) \cup LengthFaults(chain, last)
    \cup ExtensionFaults(chain, last, q) \cup NameFaults(chain, q)
    \cup (IF Unverifiable(chain, q) THEN {<<"UNABLE_TO_VERIFY_LEAF_SIGNATURE", 1>>}
          ELSE TimeFaults(chain, q) \cup SignatureFaults(chain, q))

(* -------------------------------- suite B ------------------------------ *)
(* Only the two curves, each with its digest, no lower than asked and never *)
(* the lower above the higher.                                              *)
SuiteBHolds(chain, q) ==
  LET n == Len(chain)
      By(i) == chain[IF i < n THEN i + 1 ELSE n]
      Level(c) == IF c.curve = "p384" THEN "192" ELSE "128"
  IN \A i \in Places(chain) :
       /\ chain[i].version = 3 /\ chain[i].curve \in {"p256", "p384"}
       /\ Level(chain[i]) \in q.p.suiteb
       /\ chain[i].algorithm = IF By(i).curve = "p384" THEN "p384-sha384" ELSE "p256-sha256"
       /\ \A j \in i .. n : chain[i].curve = "p384" => chain[j].curve = "p384"

(* -------------------------------- anchors ------------------------------ *)
InStore(q, c) == \E i \in DOMAIN q.store : SameCert(q.store[i], c)

Anchored(q, chain, last) ==
  \E i \in Places(chain) :
    /\ i > last /\ InStore(q, chain[i])
    /\ q.p.partial \/ X509_check_trust(chain[i], q.p.trust) = "trusted"

Linked(chain) == \A i \in Places(chain) : i < Len(chain) => X509_check_issued(chain[i + 1], chain[i])

ChainFaults ==
  {"DEPTH_ZERO_SELF_SIGNED_CERT", "SELF_SIGNED_CERT_IN_CHAIN", "CERT_REJECTED",
   "UNABLE_TO_GET_ISSUER_CERT_LOCALLY", "UNABLE_TO_GET_ISSUER_CERT"}

SuiteBFaults ==
  {"SUITE_B_INVALID_ALGORITHM", "SUITE_B_INVALID_SIGNATURE_ALGORITHM", "SUITE_B_LOS_NOT_ALLOWED",
   "SUITE_B_INVALID_CURVE", "SUITE_B_INVALID_VERSION", "SUITE_B_CANNOT_SIGN_P_384_WITH_P_256"}

(* ------------------------------ revocation ----------------------------- *)
Lists(q) == Range(q.crls) \cup Range(q.storecrls)
Checked(q, chain) ==
  CASE q.p.revoked = "all" -> Places(chain) [] q.p.revoked = "leaf" -> {1} [] OTHER -> {}

Holds(crl, c) == \E n \in EntriesFor(crl, c) : ~crl.entries[n].remove
Lifts(crl, c) == \E n \in EntriesFor(crl, c) : crl.entries[n].remove

(* A list that can be relied on for the reason r: signed by a certificate   *)
(* of the path or below it, with the name of its issuer, that may sign      *)
(* lists, for certificates of this kind and for this reason, without        *)
(* unknown critical extensions.                                             *)
BelowPath(c, chain) ==
  \E t \in Range(chain) : X509_check_issued(t, c) /\ c.signed = t.key

Covers(crl, q, chain, i, r) ==
  /\ \E c \in Range(chain) \cup {u \in Range(q.untrusted) : BelowPath(u, chain)} :
       /\ c.subject = crl.issuer /\ crl.signed = c.key
       /\ c.kusage = Absent \/ "cRLSign" \in c.kusage
  /\ crl.issuer = chain[i].issuer \/ (crl.idp /\ crl.indirect /\ q.p.extended)
  /\ ~(crl.idp /\ (IF chain[i].basic = "ca" THEN "user" ELSE "ca") \in crl.only)
  /\ ~(crl.idp /\ "attr" \in crl.only)
  /\ crl.idp /\ crl.somereasons => r \in crl.reasons
  /\ crl.critical => q.p.critical

DeltaOf(q, crl) == {d \in Lists(q) : q.p.deltas /\ check_delta_base(d, crl)}

NotRevoked(q, chain, i) ==
  \A r \in AllReasons :
    \E crl \in Lists(q) :
      /\ Covers(crl, q, chain, i, r)
      /\ CrlIsCurrent(crl, q.p) \/ \E d \in DeltaOf(q, crl) : CrlIsCurrent(d, q.p)
      /\ ~Holds(crl, chain[i]) \/ \E d \in DeltaOf(q, crl) : Lifts(d, chain[i])

(* Without extended support nothing keeps a delta from being taken for a    *)
(* full list; what follows from it is left out.                             *)
DeltasAreApart(q) == q.p.extended \/ \A crl \in Lists(q) : crl.base = 0

(* ------------------------------ properties ----------------------------- *)
(* With a callback that overrides nothing, an accepted certificate heads a  *)
(* path to one of the store that is trusted, without any fault, and no      *)
(* certificate that is to be checked is revoked.  A rejection is left out   *)
(* (RejectionIsFinal).                                                      *)
ChainVerified == Calculated("X509_verify_cert")

AcceptedIsWarranted ==
  ChainVerified /\ calc.in.accept = {} /\ calc.out.ret = 1 /\ calc.out.told = <<>> =>
    LET q == calc.in
        chain == calc.out.chain
    IN /\ SameCert(chain[1], q.cert) /\ Linked(chain) /\ Anchored(q, chain, calc.out.last)
       /\ Faults(chain, calc.out.last, q) = {}
       /\ q.p.suiteb # {} => SuiteBHolds(chain, q)
       /\ DeltasAreApart(q) => \A i \in Checked(q, chain) : NotRevoked(q, chain, i)

(* A callback that overrides everything is told every fault of the chain    *)
(* and nothing else, so that it can decide; one that overrides nothing is   *)
(* told one that is there.                                                  *)
EveryFaultIsTold ==
  ChainVerified /\ calc.in.p.revoked = None =>
    LET told == {t \in Range(calc.out.told) : t[1] \notin ChainFaults \cup SuiteBFaults}
        faults == Faults(calc.out.chain, calc.out.last, calc.in)
    IN /\ told \subseteq faults
       /\ calc.in.accept # {} =>
            /\ told = faults
            /\ calc.in.p.suiteb # {} =>
                 (SuiteBHolds(calc.out.chain, calc.in)
                   <=> \A t \in Range(calc.out.told) : t[1] \notin SuiteBFaults)
       /\ calc.in.accept = {} /\ calc.out.ret = 0 => calc.out.told # <<>>

(* When no certificate has two possible issuers, and the path leads to a    *)
(* root of the store within the depth and has no fault, it is found and     *)
(* accepted, wherever its certificates come from.                           *)
RECURSIVE Path(_, _)
Path(chain, all) ==
  LET c == Last(chain)
      issuers == {i \in all : X509_check_issued(i, c)}
  IN IF SelfSigned(c) \/ issuers = {} \/ Len(chain) > 6 THEN chain
     ELSE Path(Append(chain, CHOOSE i \in issuers : TRUE), all)

Unambiguous(q) ==
  LET all == Range(q.untrusted) \cup Range(q.store) \cup {q.cert}
  IN /\ \A c \in all : Cardinality({i \in all : X509_check_issued(i, c)}) <= 1
     /\ \A c \in all : c.rejected = {}
     /\ Cardinality(Range(q.untrusted)) = Len(q.untrusted)

GoodPathsAreAccepted ==
  ChainVerified /\ calc.in.p.revoked = None /\ calc.in.p.suiteb = {} /\ Unambiguous(calc.in) =>
    LET q == calc.in
        path == Path(<<q.cert>>, Range(q.untrusted) \cup Range(q.store))
    IN /\ SelfSigned(Last(path)) /\ X509_check_issued(Last(path), Last(path))
       /\ InStore(q, Last(path))
       /\ X509_check_trust(Last(path), q.p.trust) = "trusted"
       /\ Len(path) <= q.p.depth /\ Faults(path, Len(path), q) = {}
       => calc.out.ret = 1

(* A single list by the issuer itself decides for the leaf: revoked by it   *)
(* is refused, and a current one in its scope that does not hold the leaf   *)
(* lets it pass.                                                            *)
OneListDecides ==
  ChainVerified /\ calc.in.accept = {} /\ calc.in.p.revoked = "leaf"
           /\ Cardinality(Lists(calc.in)) = 1 /\ DeltasAreApart(calc.in) =>
    LET q == calc.in
        crl == CHOOSE l \in Lists(q) : TRUE
        chain == calc.out.chain
    IN /\ Holds(crl, q.cert) => calc.out.ret = 0
       /\ /\ Len(chain) > 1 /\ crl.issuer = chain[1].issuer /\ X509_check_akid(chain[2], crl)
          /\ \A r \in AllReasons : Covers(crl, q, chain, 1, r)
          /\ chain[2].subject = crl.issuer /\ crl.signed = chain[2].key
          /\ chain[2].kusage = Absent \/ "cRLSign" \in chain[2].kusage
          /\ ~IdpInvalid(crl) /\ ~crl.critical /\ CrlIsCurrent(crl, q.p)
          /\ crl.base = 0 /\ IdpPoint(crl) = Absent /\ q.cert.points = <<>>
          /\ ~(crl.idp /\ crl.somereasons) /\ ~(crl.idp /\ crl.indirect /\ ~q.p.extended)
          /\ ~Holds(crl, q.cert)
          /\ Anchored(q, chain, calc.out.last) /\ Faults(chain, calc.out.last, q) = {}
          => calc.out.ret = 1

(* Certificates are verified: what is accepted is warranted, what is wrong  *)
(* is told, and good ones are accepted.                                     *)
CertificatesAreVerified ==
  AcceptedIsWarranted /\ EveryFaultIsTold /\ GoodPathsAreAccepted /\ OneListDecides

(* "If explicitly rejected notify callback and reject if not overridden"    *)
(* (check_trust): what the callback was told of and did not override is     *)
(* not accepted.                                                            *)
RejectionIsFinal ==
  ChainVerified /\ calc.in.accept = {} /\ calc.out.told # <<>> => calc.out.ret # 1
=============================================================================

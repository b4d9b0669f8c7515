----------------------------- MODULE CipherRules -----------------------------
(* The cipher suites of a connection: the table of the library, the rules  *)
(* that make a list of preferences of it, what a client offers of its      *)
(* list, which suite the server chooses and whether the client takes it.   *)
(*                                                                         *)
(* The linked list the rules work on is a sequence of entries; a rule goes *)
(* through the list as it was when the rule began.  A rule string is the   *)
(* sequence of its items.  A selection gives the algorithms an item names, *)
(* the empty set where it names none.                                      *)
EXTENDS Calculation, Integers, Sequences, FiniteSets
LOCAL INSTANCE SequencesExt

CONSTANTS RuleCases,       \* records [table, rules]: lists to make of a table
          OrderCases,      \* records [aes, of]: orders of preference to make
          ChoiceCases      \* records [client, server]: two ends that negotiate

Suite(kx, auth, enc, mac, ssl, bits) ==
  [kx |-> kx, auth |-> auth, enc |-> enc, mac |-> mac, ssl |-> ssl, bits |-> bits]

RsaAndDhCiphers == <<
  Suite("kRSA", "aRSA", "RC4", "MD5", "SSLV3", 128),
  Suite("kRSA", "aRSA", "RC4", "SHA1", "SSLV3", 128),
  Suite("kRSA", "aRSA", "3DES", "SHA1", "SSLV3", 112),
  Suite("kEDH", "aNULL", "RC4", "MD5", "SSLV3", 128),
  Suite("kRSA", "aRSA", "AES128", "SHA1", "TLSV1", 128),
  Suite("kEDH", "aRSA", "AES128", "SHA1", "TLSV1", 128),
  Suite("kEDH", "aNULL", "AES128", "SHA1", "TLSV1", 128),
  Suite("kRSA", "aRSA", "AES256", "SHA1", "TLSV1", 256),
  Suite("kEDH", "aRSA", "AES256", "SHA1", "TLSV1", 256) >>
Sha256AndPskCiphers == <<
  Suite("kEDH", "aNULL", "AES256", "SHA1", "TLSV1", 256),
  Suite("kRSA", "aRSA", "AES128", "SHA256", "TLSV1_2", 128),
  Suite("kRSA", "aRSA", "AES256", "SHA256", "TLSV1_2", 256),
  Suite("kEDH", "aRSA", "AES128", "SHA256", "TLSV1_2", 128),
  Suite("kEDH", "aRSA", "AES256", "SHA256", "TLSV1_2", 256),
  Suite("kEDH", "aNULL", "AES128", "SHA256", "TLSV1_2", 128),
  Suite("kEDH", "aNULL", "AES256", "SHA256", "TLSV1_2", 256),
  Suite("kPSK", "aPSK", "RC4", "SHA1", "TLSV1", 128),
  Suite("kPSK", "aPSK", "AES128", "SHA1", "TLSV1", 128) >>
GcmCiphers == <<
  Suite("kPSK", "aPSK", "AES256", "SHA1", "TLSV1", 256),
  Suite("kRSA", "aRSA", "AES128GCM", "AEAD", "TLSV1_2", 128),
  Suite("kRSA", "aRSA", "AES256GCM", "AEAD", "TLSV1_2", 256),
  Suite("kEDH", "aRSA", "AES128GCM", "AEAD", "TLSV1_2", 128),
  Suite("kEDH", "aRSA", "AES256GCM", "AEAD", "TLSV1_2", 256),
  Suite("kEDH", "aNULL", "AES128GCM", "AEAD", "TLSV1_2", 128),
  Suite("kEDH", "aNULL", "AES256GCM", "AEAD", "TLSV1_2", 256),
  Suite("kEECDH", "aECDSA", "RC4", "SHA1", "TLSV1", 128) >>
EcdheCiphers == <<
  Suite("kEECDH", "aECDSA", "AES128", "SHA1", "TLSV1", 128),
  Suite("kEECDH", "aECDSA", "AES256", "SHA1", "TLSV1", 256),
  Suite("kEECDH", "aRSA", "RC4", "SHA1", "TLSV1", 128),
  Suite("kEECDH", "aRSA", "AES128", "SHA1", "TLSV1", 128),
  Suite("kEECDH", "aRSA", "AES256", "SHA1", "TLSV1", 256),
  Suite("kEECDH", "aNULL", "RC4", "SHA1", "TLSV1", 128),
  Suite("kEECDH", "aNULL", "AES128", "SHA1", "TLSV1", 128),
  Suite("kEECDH", "aNULL", "AES256", "SHA1", "TLSV1", 256) >>
EcdheSha2Ciphers == <<
  Suite("kEECDH", "aECDSA", "AES128", "SHA256", "TLSV1_2", 128),
  Suite("kEECDH", "aECDSA", "AES256", "SHA384", "TLSV1_2", 256),
  Suite("kEECDH", "aRSA", "AES128", "SHA256", "TLSV1_2", 128),
  Suite("kEECDH", "aRSA", "AES256", "SHA384", "TLSV1_2", 256),
  Suite("kEECDH", "aECDSA", "AES128GCM", "AEAD", "TLSV1_2", 128),
  Suite("kEECDH", "aECDSA", "AES256GCM", "AEAD", "TLSV1_2", 256),
  Suite("kEECDH", "aRSA", "AES128GCM", "AEAD", "TLSV1_2", 128),
  Suite("kEECDH", "aRSA", "AES256GCM", "AEAD", "TLSV1_2", 256) >>
ChaChaCiphers == <<
  Suite("kEECDH", "aPSK", "AES128GCM", "AEAD", "TLSV1_2", 128),
  Suite("kEECDH", "aRSA", "CHACHA20POLY1305", "AEAD", "TLSV1_2", 256),
  Suite("kEECDH", "aECDSA", "CHACHA20POLY1305", "AEAD", "TLSV1_2", 256),
  Suite("kEDH", "aRSA", "CHACHA20POLY1305", "AEAD", "TLSV1_2", 256) >>

(* ssl3_get_cipher hands the table out from its end.                       *)
CipherTable ==
  Reverse(RsaAndDhCiphers \o Sha256AndPskCiphers \o GcmCiphers
            \o EcdheCiphers \o EcdheSha2Ciphers \o ChaChaCiphers)

(* ------------------------------ selections ----------------------------- *)
AnySuite == [kx |-> {}, auth |-> {}, enc |-> {}, mac |-> {}, ssl |-> {}, bits |-> -1]
Kx(s) == [AnySuite EXCEPT !.kx = s]
Auth(s) == [AnySuite EXCEPT !.auth = s]
Enc(s) == [AnySuite EXCEPT !.enc = s]
EncMac(e, m) == [Enc(e) EXCEPT !.mac = m]

Selects(sel, c) ==
  IF sel.bits >= 0 THEN c.bits = sel.bits
  ELSE \A f \in {"kx", "auth", "enc", "mac", "ssl"} : sel[f] = {} \/ c[f] \in sel[f]

(* ------------------------------- the list ------------------------------ *)
Collected(table) ==
  [i \in DOMAIN table |-> [c |-> table[i], active |-> FALSE, group |-> 0]]

Without(l, e) == SelectSeq(l, LAMBDA x : x.c # e.c)
ToTail(l, e) == Append(Without(l, e), e)
ToHead(l, e) == <<e>> \o Without(l, e)

Add(l, e, group) ==
  IF e.active THEN l ELSE ToTail(l, [e EXCEPT !.active = TRUE, !.group = group])
Order(l, e) == IF e.active THEN ToTail(l, [e EXCEPT !.group = 0]) ELSE l
Delete(l, e) ==
  IF e.active THEN ToHead(l, [e EXCEPT !.active = FALSE, !.group = 0]) ELSE l

(* A deletion goes through the list from its end.                          *)
AllForwards(op, l) == l
Visited(op, l) == IF op = "del" THEN Reverse(l) ELSE l

ApplyRule(op, sel, group, l) ==
  LET Changed(acc, e) ==
        CASE ~Selects(sel, e.c) -> acc
          [] op = "add"  -> Add(acc, e, group)
          [] op = "ord"  -> Order(acc, e)
          [] op = "del"  -> Delete(acc, e)
          [] op = "kill" -> Without(acc, e)
  IN FoldLeft(Changed, l, Visited(op, l))

(* The strengths in use, the greatest first, each moved to the end.        *)
StrengthSort(l) ==
  LET used == {l[i].c.bits : i \in {j \in DOMAIN l : l[j].active}}
      Sorted(acc, b) == ApplyRule("ord", [AnySuite EXCEPT !.bits = b], 0, acc)
  IN FoldLeft(Sorted, l, SetToSortSeq(used, >))

(* ------------------------------ rule strings --------------------------- *)
(* State while a string is read: the list, whether a group is open, whether*)
(* one was seen, the value to return, and whether reading has stopped.     *)
Reading(l) == [l |-> l, open |-> 0, seen |-> FALSE, ok |-> TRUE, stop |-> FALSE]
Stopped(s) == [s EXCEPT !.ok = FALSE, !.stop = TRUE, !.open = 0]

(* The last entry of the list ends the group.                              *)
LeaveGroup(s) == [s EXCEPT !.open = 0]
EndGroup(s) ==
  [s EXCEPT !.open = 0,
            !.l = IF @ = <<>> THEN @ ELSE [@ EXCEPT ![Len(@)].group = 0]]

ReadItem(s, item) ==
  CASE s.stop -> s
    [] s.open = 1 /\ item.op = "]" -> EndGroup(s)
    [] s.open = 1 /\ item.op \notin {"add", "]"} -> Stopped(s)
    [] s.open = 0 /\ item.op \in {"kill", "strength"} /\ s.seen -> Stopped(s)
    [] s.open = 0 /\ item.op = "[" -> [s EXCEPT !.open = 1, !.seen = TRUE]
    [] s.open = 0 /\ item.op = "]" -> [s EXCEPT !.ok = FALSE]
    [] s.open = 0 /\ item.op = "strength" -> [s EXCEPT !.l = StrengthSort(@)]
    [] OTHER -> [s EXCEPT !.l = ApplyRule(item.op, item.of, s.open, @)]

ProcessRules(rules, l) ==
  LET end == FoldLeft(ReadItem, Reading(l), rules)
  IN [l |-> end.l, ok |-> end.ok /\ end.open = 0]

KeyExchanges == {"kRSA", "kEDH", "kEECDH", "kPSK"}
Macs == {"MD5", "SHA1", "SHA256", "SHA384", "AEAD"}

(* The order of preference before the rules of the application, aes when   *)
(* the processor computes AES.                                             *)
SwappedOrder(aes) ==
  IF aes THEN <<{"CHACHA20POLY1305"}, {"AES256GCM"}, {"AES128GCM"}>>
  ELSE <<{"AES256GCM"}, {"AES128GCM"}, {"CHACHA20POLY1305"}>>
AeadOrder(aes) ==
  IF aes THEN <<{"AES256GCM"}, {"AES128GCM"}, {"CHACHA20POLY1305"}>>
  ELSE <<{"CHACHA20POLY1305"}, {"AES256GCM"}, {"AES128GCM"}>>

Preferences(aes) ==
  LET R(op, sel) == [op |-> op, sel |-> sel]
      aead == AeadOrder(aes)
  IN << R("add", Kx({"kEECDH"})), R("del", Kx({"kEECDH"})),
        R("add", Enc(aead[1])), R("add", Enc(aead[2])), R("add", Enc(aead[3])),
        R("add", Enc({"AES256"})), R("add", Enc({"AES128"})),
        R("add", EncMac({"RC4"}, Macs \ {"MD5"})), R("add", EncMac({"RC4"}, {"MD5"})),
        R("add", Enc({"3DES"})), R("add", AnySuite),
        R("ord", Kx(KeyExchanges \ {"kEDH", "kEECDH"})),
        R("ord", Auth({"aNULL"})),
        R("del", AnySuite) >>

Preferred(table, aes) ==
  FoldLeft(LAMBDA l, r : ApplyRule(r.op, r.sel, 0, l), Collected(table), Preferences(aes))

(* ssl_create_cipher_list: the active entries and their group flags.       *)
CreateList(table, rules) ==
  LET end == ProcessRules(rules, table)
      on == SelectSeq(end.l, LAMBDA e : e.active)
  IN [ok |-> end.ok, ciphers |-> [i \in DOMAIN on |-> on[i].c],
      flags |-> [i \in DOMAIN on |-> on[i].group]]

(* ------------------------------ negotiation ---------------------------- *)
(* A client has a list, versions, signature algorithms and perhaps a PSK   *)
(* callback; ssl_set_client_disabled says what it leaves out.              *)
Disabled(cl, c) ==
  \/ c.ssl = "TLSV1_2" /\ ~cl.tls12
  \/ c.auth = "aRSA" /\ "rsa" \notin cl.sigs
  \/ c.auth = "aECDSA" /\ "ecdsa" \notin cl.sigs
  \/ (c.auth = "aPSK" \/ c.kx = "kPSK") /\ ~cl.psk

Offered(cl) == SelectSeq(cl.ciphers, LAMBDA c : ~Disabled(cl, c))

(* ssl_set_cert_masks and the conditions of ssl3_choose_cipher.            *)
KxReady(sv, c) ==
  \/ c.kx = "kRSA" /\ "rsa" \in sv.certs
  \/ c.kx = "kEDH" /\ sv.dh
  \/ c.kx = "kEECDH" /\ sv.ecdh
  \/ c.kx = "kPSK"
AuthReady(sv, c) ==
  \/ c.auth = "aRSA" /\ "rsa" \in sv.certs
  \/ c.auth = "aECDSA" /\ "ecdsa" \in sv.certs
  \/ c.auth = "aNULL"
  \/ c.auth = "aPSK" /\ sv.psk
Usable(sv, tls12, c) ==
  /\ c.ssl = "TLSV1_2" => tls12
  /\ KxReady(sv, c)
  /\ AuthReady(sv, c)

None == [none |-> TRUE]
At(s, c) == CHOOSE i \in DOMAIN s : s[i] = c

(* ssl3_choose_cipher.  min is the least place in allow found in the group *)
(* so far, 0 while there is none.                                          *)
LowerOf(i, j) == IF i # 0 /\ i < j THEN i ELSE j

InGroup(min, place) == [min |-> LowerOf(min, place), at |-> 0]
LastWins(min, place) == [min |-> 0, at |-> place]
LastInGroup(min, place) == [min |-> 0, at |-> LowerOf(min, place)]

Considered(flags, i, found, place, s) ==
  CASE s.at # 0 -> s
    [] found /\ flags[i] = 1 -> InGroup(s.min, place)
    [] found /\ flags[i] = 0 -> LastInGroup(s.min, place)
    [] ~found /\ flags[i] = 0 /\ s.min # 0 -> [s EXCEPT !.at = s.min]
    [] OTHER -> s

ChooseCipher(sv, offer, tls12) ==
  LET prio == IF sv.prefers THEN sv.ciphers ELSE offer
      allow == IF sv.prefers THEN offer ELSE sv.ciphers
      flags == IF sv.prefers THEN sv.flags ELSE [i \in DOMAIN offer |-> 0]
      Step(s, i) ==
        LET found == Usable(sv, tls12, prio[i]) /\ Contains(allow, prio[i])
        IN Considered(flags, i, found, IF found THEN At(allow, prio[i]) ELSE 0, s)
      end == FoldLeft(Step, [min |-> 0, at |-> 0], [i \in DOMAIN prio |-> i])
  IN IF end.at = 0 THEN None ELSE allow[end.at]

(* What ssl3_get_server_hello refuses.                                     *)
Accepts(cl, c) == ~Disabled(cl, c) /\ Contains(cl.ciphers, c)

Negotiate(cl, sv) ==
  LET offer == Offered(cl)
      c == IF offer = <<>> THEN None ELSE ChooseCipher(sv, offer, cl.tls12 /\ sv.tls12)
  IN [chosen |-> c, accepted |-> c # None /\ Accepts(cl, c)]

(* ------------------------------- the calls ----------------------------- *)
ListCall ==
  \E t \in RuleCases :
    Calculates("ssl_create_cipher_list", t, CreateList(Collected(t.table), t.rules))
OrderCall ==
  \E t \in OrderCases : Calculates("preferences", t, Preferred(t.of, t.aes))
ChoiceCall ==
  \E t \in ChoiceCases : Calculates("ssl3_choose_cipher", t, Negotiate(t.client, t.server))

CipherNext == ListCall \/ OrderCall \/ ChoiceCall

(* ------------------------------ properties ----------------------------- *)
(* The rules say of each suite alone when it last moved: an addition or a  *)
(* reordering puts it behind all others, a deletion before all others, and *)
(* suites moved together keep the order they had.                          *)
MomentAfter(m, item, n, c) ==
  CASE m.dead -> m
    [] item.op = "add" /\ Selects(item.of, c) /\ ~m.on
         -> [m EXCEPT !.on = TRUE, !.key = <<1000 * n>> \o @]
    [] item.op = "ord" /\ Selects(item.of, c) /\ m.on -> [m EXCEPT !.key = <<1000 * n>> \o @]
    [] item.op = "strength" /\ m.on -> [m EXCEPT !.key = <<1000 * n - c.bits>> \o @]
    [] item.op = "del" /\ Selects(item.of, c) /\ m.on
         -> [m EXCEPT !.on = FALSE, !.key = <<-(1000 * n)>> \o @]
    [] item.op = "kill" /\ Selects(item.of, c) -> [m EXCEPT !.on = FALSE, !.dead = TRUE]
    [] OTHER -> [m EXCEPT !.key = <<Head(@)>> \o @]

Moment(table, rules, i) ==
  FoldLeft(LAMBDA m, n : MomentAfter(m, rules[n], n, table[i]),
           [on |-> FALSE, dead |-> FALSE, key |-> <<0>>], [n \in DOMAIN rules |-> n])

Earlier(k1, k2) ==
  \E n \in DOMAIN k1 : k1[n] < k2[n] /\ \A m \in 1 .. n - 1 : k1[m] = k2[m]

Ungrouped(rules) == \A n \in DOMAIN rules : rules[n].op \notin {"[", "]"}

(* A list of preferences holds exactly the suites the rules leave on, in   *)
(* the order in which the rules last moved them: a killed suite never      *)
(* comes back, a suite added twice keeps its place, and suites that one    *)
(* rule moves keep their order (ssl_cipher_apply_rule, in both directions  *)
(* of its loop, and the sorting by strength built on it).                  *)
ListFollowsRules ==
  Calculated("ssl_create_cipher_list") =>
    LET table == calc.in.table
        rules == calc.in.rules
        moments == [i \in DOMAIN table |-> Moment(table, rules, i)]
        on == {i \in DOMAIN table : moments[i].on}
        Before(i, j) == \/ Earlier(moments[i].key, moments[j].key)
                        \/ moments[i].key = moments[j].key /\ i < j
        order == SetToSortSeq(on, Before)
    IN Ungrouped(rules) =>
         calc.out.ok /\ calc.out.ciphers = [n \in DOMAIN order |-> table[order[n]]]

(* Whatever the table holds, the order of preference is that of the        *)
(* comments in ssl_create_cipher_list: suites that authenticate first,     *)
(* then those with forward secrecy, then by bulk cipher, then ephemeral    *)
(* ECDH, and within all that the order of the table.                       *)
BulkRank(c, aes) ==
  CASE c.enc = "CHACHA20POLY1305" -> IF aes THEN 3 ELSE 1
    [] c.enc = "AES256GCM" -> IF aes THEN 1 ELSE 2
    [] c.enc = "AES128GCM" -> IF aes THEN 2 ELSE 3
    [] c.enc = "AES256" -> 4
    [] c.enc = "AES128" -> 5
    [] c.enc = "RC4" -> IF c.mac = "MD5" THEN 7 ELSE 6
    [] c.enc = "3DES" -> 8

PreferenceKey(c, aes, i) ==
  << IF c.auth = "aNULL" THEN 1 ELSE 0,
     IF c.kx \in {"kEDH", "kEECDH"} THEN 0 ELSE 1,
     BulkRank(c, aes),
     IF c.kx = "kEECDH" THEN 0 ELSE 1,
     i >>

PreferencesAreSorted ==
  Calculated("preferences") =>
    LET t == calc.in.of
        Key(n) == PreferenceKey(calc.out[n].c, calc.in.aes, At(t, calc.out[n].c))
    IN /\ Len(calc.out) = Len(t)
       /\ \A n \in DOMAIN t : ~calc.out[n].active /\ calc.out[n].group = 0
       /\ \A n \in 1 .. Len(t) - 1 : Earlier(Key(n), Key(n + 1))

(* A list with groups and no rule that moves suites out of them: a flag is *)
(* set exactly when the next suite was added in the same group, so the     *)
(* last suite of a group, and of the list, has none                        *)
(* (ssl_cipher_preference_list_st).                                        *)
GroupOf(table, rules, c) ==
  LET n == CHOOSE n \in DOMAIN rules :
             /\ rules[n].op = "add" /\ Selects(rules[n].of, c)
             /\ \A k \in 1 .. n - 1 : rules[k].op = "add" => ~Selects(rules[k].of, c)
      opens == {k \in 1 .. n : rules[k].op = "["}
      closes == {k \in 1 .. n : rules[k].op = "]"}
  IN IF Cardinality(opens) > Cardinality(closes) THEN Cardinality(opens) ELSE 0

FlagsAreGroups ==
  Calculated("ssl_create_cipher_list") =>
    LET list == calc.out.ciphers
        Of(i) == GroupOf(calc.in.table, calc.in.rules, list[i])
    IN (/\ calc.out.ok
        /\ \A n \in DOMAIN calc.in.rules : calc.in.rules[n].op \in {"add", "[", "]"})
         => \A i \in DOMAIN list :
              calc.out.flags[i] = IF i < Len(list) /\ Of(i) # 0 /\ Of(i) = Of(i + 1)
                                  THEN 1 ELSE 0

(* The suite a server chooses is one both ends can use and is the best of  *)
(* them by the preferences that count: the group the server puts first     *)
(* and, within it, the client's order; or the client's order alone.  There *)
(* is a choice whenever the ends share a suite, and the client takes it    *)
(* (ssl3_choose_cipher, ssl3_get_server_hello).                            *)
RankOf(sv, c) ==
  Cardinality({i \in 1 .. At(sv.ciphers, c) - 1 : sv.flags[i] = 0})

ChoiceIsBest ==
  Calculated("ssl3_choose_cipher") =>
    LET cl == calc.in.client
        sv == calc.in.server
        shared == {c \in ToSet(Offered(cl)) :
                     Contains(sv.ciphers, c) /\ Usable(sv, cl.tls12 /\ sv.tls12, c)}
        Place(c) == At(Offered(cl), c)
        Better(c, d) == \/ sv.prefers /\ RankOf(sv, c) < RankOf(sv, d)
                        \/ /\ sv.prefers => RankOf(sv, c) = RankOf(sv, d)
                           /\ Place(c) < Place(d)
    IN /\ calc.out.chosen # None <=> shared # {}
       /\ shared # {} =>
            /\ calc.out.chosen \in shared
            /\ \A c \in shared : ~Better(c, calc.out.chosen)
            /\ calc.out.accepted

(* Rules make the list of suites, the list makes the choice, and both are  *)
(* what the documentation of the rules says (ssl.h:700).                   *)
CiphersFollowRules == ListFollowsRules /\ PreferencesAreSorted /\ FlagsAreGroups /\ ChoiceIsBest
=============================================================================

---------------------------- MODULE NameMatching ----------------------------
(* Names a certificate is checked for (crypto/x509v3/v3_utl.c) and the       *)
(* constraints an authority puts on them (v3_ncons.c). A name is a sequence  *)
(* of characters: letters of both cases, ".", "-", "*", "@", ":", "/", "0"   *)
(* for NUL, and "X" for the four that start an internationalised label,      *)
(* "xn--".                                                                   *)
EXTENDS Calculation, Integers, Sequences
LOCAL INSTANCE SequencesExt
LOCAL INSTANCE TLC

CONSTANTS
  HostCases,        \* [pattern, subject, flags]
  SubjectCases,     \* [type, sans, names, chk, flags]: a certificate and a name
  MailCases,        \* pairs of addresses
  TreeCases,        \* [type, name, base]: a name and a constraint
  ConstraintCases,  \* [name, permitted, excluded]: outcomes of single matches
  AddressCases,     \* sequences of elements between the colons
  AddressSize,      \* 16 in the source
  ListLines         \* lines of configuration

Lower(c) == CASE c = "A" -> "a" [] c = "B" -> "b" [] OTHER -> c
IsAlnum(c) == c \in {"a", "b", "A", "B"}
Lowered(s) == [i \in DOMAIN s |-> Lower(s[i])]
Has(s, c) == \E i \in DOMAIN s : s[i] = c
LastPart(s, n) == SubSeq(s, Len(s) - n + 1, Len(s))
FirstPart(s, n) == SubSeq(s, 1, n)
From(s, i) == SubSeq(s, i, Len(s))
Split(s, c) ==
  FoldLeft(LAMBDA parts, x : IF x = c THEN Append(parts, <<>>)
                             ELSE Front(parts) \o <<Append(Last(parts), x)>>, <<<<>>>>, s)
FirstAt(s, c) == IF Has(s, c) THEN CHOOSE i \in DOMAIN s : s[i] = c /\ \A j \in 1..(i - 1) : s[j] # c ELSE 0
------------------------------------------------------------------------------
(* A subject that starts with a dot asks for any name below it.              *)
SkipStop(pattern, subject, flags) ==   \* where the prefix of the pattern ends
  CHOOSE i \in 1..(Len(pattern) + 1) :
    /\ \/ Len(pattern) - i + 1 <= Len(subject) \/ pattern[i] = "0"
       \/ "SINGLE_LABEL_SUBDOMAINS" \in flags /\ pattern[i] = "."
    /\ \A j \in 1..(i - 1) : ~(\/ Len(pattern) - j + 1 <= Len(subject) \/ pattern[j] = "0"
                               \/ "SINGLE_LABEL_SUBDOMAINS" \in flags /\ pattern[j] = ".")
skip_prefix(pattern, subject, flags) ==
  IF "DOT_SUBDOMAINS" \notin flags \/ Len(pattern) - SkipStop(pattern, subject, flags) + 1 # Len(subject)
  THEN pattern ELSE From(pattern, SkipStop(pattern, subject, flags))

(* Both go on to the first difference or NUL of the pattern.                 *)
SameIgnoringCase(a, b) == Len(a) = Len(b) /\ ~Has(a, "0") /\ Lowered(a) = Lowered(b)
equal_nocase(pattern, subject, flags) == SameIgnoringCase(skip_prefix(pattern, subject, flags), subject)
equal_case(pattern, subject, flags) == skip_prefix(pattern, subject, flags) = subject

AtPlaces(a, b) == {i \in DOMAIN a : a[i] = "@" \/ b[i] = "@"}
equal_email(a, b) ==
  IF Len(a) # Len(b) THEN FALSE
  ELSE IF AtPlaces(a, b) = {} THEN a = b
  ELSE LET i == CHOOSE j \in AtPlaces(a, b) : \A k \in AtPlaces(a, b) : k <= j
       IN  /\ SameIgnoringCase(From(a, i), From(b, i))
           /\ IF i = 1 THEN a = b ELSE FirstPart(a, i - 1) = FirstPart(b, i - 1)

(* The part of the subject that the star stands for.                         *)
StarPart(prefix, suffix, subject) ==
  SubSeq(subject, Len(prefix) + 1, Len(subject) - Len(suffix))
WholeLabel(prefix, suffix) == prefix = <<>> /\ suffix # <<>> /\ Head(suffix) = "."
MayStandFor(part, multi) == \A i \in DOMAIN part : IsAlnum(part[i]) \/ part[i] = "-" \/ (multi /\ part[i] = ".")
StarMatchesEmpty(prefix, suffix, subject, flags) ==
  MayStandFor(StarPart(prefix, suffix, subject), "MULTI_LABEL_WILDCARDS" \in flags)
StarMatches(prefix, suffix, subject, flags) ==
  LET part == StarPart(prefix, suffix, subject) IN
  /\ WholeLabel(prefix, suffix) => part # <<>>
  /\ ~WholeLabel(prefix, suffix) => Head(subject) # "X"
  /\ \/ part = <<"*">>
     \/ MayStandFor([i \in DOMAIN part |-> IF part[i] = "X" THEN "a" ELSE part[i]],
                    WholeLabel(prefix, suffix) /\ "MULTI_LABEL_WILDCARDS" \in flags)
wildcard_match(prefix, suffix, subject, flags) ==
  /\ Len(subject) >= Len(prefix) + Len(suffix)
  /\ SameIgnoringCase(prefix, FirstPart(subject, Len(prefix)))
  /\ SameIgnoringCase(LastPart(subject, Len(suffix)), suffix)
  /\ StarMatches(prefix, suffix, subject, flags)

(* The scan of a pattern for its star, character by character. bad ends it.  *)
(* At a star in place i the character at 2i - 1, counted from one, is taken  *)
(* for the one behind it; what is behind the pattern may be anything.        *)
NewScan == [star |-> 0, state |-> {"START"}, dots |-> 0, bad |-> FALSE]
EndsLabel(p, i, beyond) ==
  i = Len(p) \/ (IF 2 * i - 1 \in DOMAIN p THEN p[2 * i - 1] = "." ELSE beyond)
AtStar(s, p, i, flags, beyond) ==
  IF \/ s.star # 0 \/ "IDNA" \in s.state \/ s.dots > 0
     \/ /\ "NO_PARTIAL_WILDCARDS" \in flags
        /\ ~("START" \in s.state /\ EndsLabel(p, i, beyond))
     \/ ~("START" \in s.state \/ EndsLabel(p, i, beyond))
  THEN [s EXCEPT !.bad = TRUE]
  ELSE [s EXCEPT !.star = i, !.state = @ \ {"START"}]
AtStart(s, c) ==
  IF c = "X" /\ "IDNA" \notin s.state THEN [s EXCEPT !.state = @ \cup {"IDNA"}]
  ELSE [s EXCEPT !.state = @ \ {"START"}, !.bad = ~IsAlnum(c)]
AtOther(s, c) ==
  CASE IsAlnum(c) -> [s EXCEPT !.state = @ \cap {"IDNA"}]
    [] c = "." -> [s EXCEPT !.bad = "HYPHEN" \in s.state, !.state = {"START"}, !.dots = @ + 1]
    [] c = "-" -> [s EXCEPT !.bad = "HYPHEN" \in s.state, !.state = @ \cup {"HYPHEN"}]
    [] OTHER -> [s EXCEPT !.bad = TRUE]      \* an X in a label has two hyphens in it
ScanStep(s, p, i, flags, beyond) ==
  IF s.bad THEN s
  ELSE IF p[i] = "*" THEN AtStar(s, p, i, flags, beyond)
  ELSE IF "START" \in s.state THEN AtStart(s, p[i]) ELSE AtOther(s, p[i])
Scanned(p, flags, beyond) ==
  FoldLeft(LAMBDA s, i : ScanStep(s, p, i, flags, beyond), NewScan, [i \in DOMAIN p |-> i])
StarOf(s) ==
  IF s.bad \/ s.state \cap {"START", "HYPHEN"} # {} \/ s.dots < 2 THEN 0 ELSE s.star
valid_star(p, flags, beyond) == StarOf(Scanned(p, flags, beyond))

IsSubdomainOf(subject) == Len(subject) > 1 /\ subject[1] = "."
WithStar(pattern, star, subject, flags) ==
  IF star = 0 THEN equal_nocase(pattern, subject, flags)
  ELSE wildcard_match(FirstPart(pattern, star - 1), From(pattern, star + 1), subject, flags)
equal_wildcard(pattern, subject, flags, beyond) ==
  WithStar(pattern, IF IsSubdomainOf(subject) THEN 0 ELSE valid_star(pattern, flags, beyond),
           subject, flags)

(* The names of a certificate: those of its alternative names that have the  *)
(* type, then, unless there was one, the subject's. A subject name that      *)
(* cannot be converted counts as one that matches.                           *)
HostFlags(chk, flags) == IF IsSubdomainOf(chk) THEN flags \cup {"DOT_SUBDOMAINS"} ELSE flags
NameEqual(type, name, chk, flags, beyond) ==
  CASE type = "email" -> equal_email(name, chk)
    [] type = "ip" -> equal_case(name, chk, flags)
    [] type = "dns" /\ "NO_WILDCARDS" \in flags -> equal_nocase(name, chk, HostFlags(chk, flags))
    [] OTHER -> equal_wildcard(name, chk, HostFlags(chk, flags), beyond)
do_check_string(type, name, chk, flags, beyond) ==
  name.value # <<>> /\ (~name.converts \/ NameEqual(type, name.value, chk, flags, beyond))
OfType(sans, type) == {n \in sans : n.type = type}
UsesSubject(c) ==
  c.type # "ip" /\ (OfType(c.sans, c.type) = {} \/ "ALWAYS_CHECK_SUBJECT" \in c.flags)
do_x509_check(c, beyond) ==
  \/ \E n \in OfType(c.sans, c.type) : do_check_string(c.type, n, c.chk, c.flags, beyond)
  \/ UsesSubject(c) /\ \E n \in c.names : do_check_string(c.type, n, c.chk, c.flags, beyond)
------------------------------------------------------------------------------
(* Constraints. A single match is TRUE, FALSE or the error of a syntax.      *)
BadSyntax == "unsupported name syntax"
Answer(b) == IF b THEN "match" ELSE "no match"
EqualStrings(a, b) == Lowered(a) = Lowered(b)

nc_dnsInLabel(dns, base) ==
  Answer(\/ base = <<>>
         \/ Len(dns) >= Len(base) /\ EqualStrings(base, LastPart(dns, Len(base))))
nc_dns(dns, base) ==
  Answer(\/ base = <<>>
         \/ /\ Len(dns) > Len(base) => dns[Len(dns) - Len(base)] = "."
            /\ EqualStrings(base, IF Len(dns) > Len(base) THEN LastPart(dns, Len(base)) ELSE dns))
EmailLocal(eml, base) ==
  FirstAt(base, "@") > 1 =>
    FirstPart(base, FirstAt(base, "@") - 1) = FirstPart(eml, FirstAt(eml, "@") - 1)
EmailBelow(eml, base) == Len(eml) > Len(base) /\ EqualStrings(base, LastPart(eml, Len(base)))
nc_email(eml, base) ==
  IF ~Has(eml, "@") THEN BadSyntax
  ELSE IF ~Has(base, "@") /\ base # <<>> /\ base[1] = "." THEN Answer(EmailBelow(eml, base))
  ELSE Answer(EmailLocal(eml, base) /\ EqualStrings(From(base, FirstAt(base, "@") + 1),
                                                    From(eml, FirstAt(eml, "@") + 1)))
(* The host ends at the first colon, if there is one, else at the first      *)
(* slash.                                                                    *)
HasScheme(uri) ==
  FirstAt(uri, ":") # 0 /\ SubSeq(uri, FirstAt(uri, ":"), FirstAt(uri, ":") + 2) = <<":", "/", "/">>
AfterScheme(uri) == From(uri, FirstAt(uri, ":") + 3)
HostPart(rest) ==
  IF Has(rest, ":") THEN FirstPart(rest, FirstAt(rest, ":") - 1)
  ELSE IF Has(rest, "/") THEN FirstPart(rest, FirstAt(rest, "/") - 1) ELSE rest
HostBelow(host, base) ==
  IF base # <<>> /\ base[1] = "."
  THEN Len(host) > Len(base) /\ EqualStrings(LastPart(host, Len(base)), base)
  ELSE EqualStrings(host, base)
nc_uri(uri, base) ==
  IF ~HasScheme(uri) \/ HostPart(AfterScheme(uri)) = <<>> THEN BadSyntax
  ELSE Answer(HostBelow(HostPart(AfterScheme(uri)), base))
(* Of a directory name, a sequence of canonical parts, a start is enough.    *)
nc_dn(nm, base) == Answer(IsPrefix(base, nm))
nc_match_single(c) ==
  CASE c.type = "dns" -> nc_dns(c.name, c.base) [] c.type = "email" -> nc_email(c.name, c.base)
    [] c.type = "uri" -> nc_uri(c.name, c.base) [] c.type = "dn" -> nc_dn(c.name, c.base)

(* The subtrees of the type of a name, in order: each is a minimum or        *)
(* maximum, or the outcome of its single match. permitted stops at a match,  *)
(* but for the minima behind it.                                             *)
FirstOf(trees, stops) ==
  IF \E i \in DOMAIN trees : trees[i] \in stops
  THEN trees[CHOOSE i \in DOMAIN trees : trees[i] \in stops /\ \A j \in 1..(i - 1) : trees[j] \notin stops]
  ELSE "no match"
BehindMatch(trees) ==
  LET at == FirstAt(trees, "match") IN
  IF at = 0 THEN trees ELSE [i \in DOMAIN trees |-> IF i > at /\ trees[i] # "minmax" THEN "no match" ELSE trees[i]]
nc_permitted(trees) ==
  IF trees = <<>> THEN "match"
  ELSE IF FirstOf(BehindMatch(trees), {"minmax", BadSyntax}) # "no match"
  THEN FirstOf(BehindMatch(trees), {"minmax", BadSyntax})
  ELSE Answer(Has(trees, "match"))
nc_excluded(trees) == FirstOf(trees, {"minmax", BadSyntax, "match"})
nc_match(c) ==
  CASE nc_permitted(c.permitted) = "no match" -> "permitted violation"
    [] nc_permitted(c.permitted) = "match" ->
         IF nc_excluded(c.excluded) = "match" THEN "excluded violation"
         ELSE IF nc_excluded(c.excluded) = "no match" THEN "ok" ELSE nc_excluded(c.excluded)
    [] OTHER -> nc_permitted(c.permitted)
------------------------------------------------------------------------------
(* Addresses. What is between the colons is empty, a group of two bytes, a   *)
(* group that is no number, or four bytes in dotted form.                    *)
NewStat == [tmp |-> <<>>, zero_pos |-> -1, zero_cnt |-> 0, ok |-> TRUE]
NoStat(s) == [s EXCEPT !.ok = FALSE]
AtGap(s) ==
  IF s.zero_pos # -1 /\ s.zero_pos # Len(s.tmp) THEN NoStat(s)
  ELSE [s EXCEPT !.zero_pos = Len(s.tmp), !.zero_cnt = @ + 1]
ipv6_cb(s, elem, last) ==
  IF ~s.ok \/ Len(s.tmp) = AddressSize THEN NoStat(s)
  ELSE IF elem.kind = "empty" THEN AtGap(s)
  ELSE IF elem.kind = "bad" \/ (elem.kind = "v4" /\ (Len(s.tmp) > AddressSize - 4 \/ ~last))
  THEN NoStat(s)
  ELSE [s EXCEPT !.tmp = @ \o elem.bytes]
GapFits(s) ==
  CASE s.zero_cnt > 3 -> FALSE
    [] s.zero_cnt = 3 -> s.tmp = <<>>
    [] s.zero_cnt = 2 -> s.zero_pos \in {0, Len(s.tmp)}
    [] OTHER -> s.zero_pos \notin {0, Len(s.tmp)}
FilledAtEnd(s) == s.tmp \o [i \in 1..(AddressSize - Len(s.tmp)) |-> 0]
FilledIn(s) ==
  FirstPart(s.tmp, s.zero_pos) \o [i \in 1..(AddressSize - Len(s.tmp)) |-> 0]
    \o From(s.tmp, s.zero_pos + 1)
AddressOf(s) ==   \* <<>> is an error
  IF ~s.ok THEN <<>>
  ELSE IF s.zero_pos = -1 THEN IF Len(s.tmp) = AddressSize THEN s.tmp ELSE <<>>
  ELSE IF Len(s.tmp) = AddressSize \/ ~GapFits(s) THEN <<>> ELSE FilledIn(s)
ipv6_from_asc(elems) ==
  AddressOf(FoldLeft(LAMBDA s, i : ipv6_cb(s, elems[i], i = Len(elems)), NewStat,
                     [i \in DOMAIN elems |-> i]))

(* Lists of names with values, "name:value, name"; <<>> is an error.         *)
IsSpace(c) == c = " "
StripFrom(s) == SelectInSeq(s, LAMBDA c : ~IsSpace(c))
StripTo(s) == SelectLastInSeq(s, LAMBDA c : ~IsSpace(c))
strip_spaces(s) ==   \* a single character keeps what is behind it
  IF StripFrom(s) = 0 THEN <<>>
  ELSE IF StripFrom(s) = StripTo(s) THEN From(s, StripFrom(s))
  ELSE SubSeq(s, StripFrom(s), StripTo(s))
Colon(item) == FirstAt(item, ":")
NameOf(item) == strip_spaces(IF Colon(item) = 0 THEN item ELSE FirstPart(item, Colon(item) - 1))
ListValue(item) == strip_spaces(From(item, Colon(item) + 1))
Entry(item) == [name |-> NameOf(item), has |-> Colon(item) # 0,
                value |-> IF Colon(item) # 0 THEN ListValue(item) ELSE <<>>]
GoodEntry(e) == e.name # <<>> /\ (e.has => e.value # <<>>)
(* A comma ends a name or a value, a colon only a name.                      *)
X509V3_parse_list(line) ==
  LET entries == [i \in DOMAIN Split(line, ",") |-> Entry(Split(line, ",")[i])]
  IN  IF \A i \in DOMAIN entries : GoodEntry(entries[i]) THEN entries ELSE <<>>
------------------------------------------------------------------------------
NameMatchingNext ==
  /\ calc = NotCalculated
  /\ \/ \E c \in HostCases, beyond \in BOOLEAN :
          Calculates("equal_wildcard", c @@ [beyond |-> beyond],
                     equal_wildcard(c.pattern, c.subject, HostFlags(c.subject, c.flags), beyond))
     \/ \E c \in SubjectCases : Calculates("do_x509_check", c, do_x509_check(c, FALSE))
     \/ \E c \in MailCases : Calculates("equal_email", c, equal_email(c[1], c[2]))
     \/ \E c \in TreeCases : Calculates("nc_match_single", c, nc_match_single(c))
     \/ \E c \in ConstraintCases : Calculates("nc_match", c, nc_match(c))
     \/ \E c \in AddressCases : Calculates("ipv6_from_asc", c, ipv6_from_asc(c))
     \/ \E c \in ListLines : Calculates("X509V3_parse_list", c, X509V3_parse_list(c))
------------------------------------------------------------------------------
(* A name label by label: what the scan above has to come to.                *)
Labels(s) == Split(s, ".")
LabelChars(l, from) ==
  /\ \A i \in from..Len(l) : IsAlnum(l[i]) \/ (l[i] = "-" /\ i < Len(l) /\ l[i + 1] # "-")
GoodLabel(l) ==
  /\ l # <<>> /\ LabelChars(l, IF l[1] = "X" THEN 2 ELSE 1)
  /\ IF l[1] = "X" THEN Len(l) > 1 /\ IsAlnum(l[2]) ELSE IsAlnum(l[1])
GoodStarLabel(l, flags) ==
  \/ l = <<"*">>
  \/ /\ "NO_PARTIAL_WILDCARDS" \notin flags /\ Len(l) > 1
     /\ \/ l[1] = "*" /\ LabelChars(l, 2)
        \/ Last(l) = "*" /\ l[1] # "X" /\ GoodLabel(Front(l))
GoodPattern(p, flags) ==
  /\ Len(Labels(p)) >= 3 /\ GoodStarLabel(Labels(p)[1], flags)
  /\ \A i \in 2..Len(Labels(p)) : GoodLabel(Labels(p)[i])
Permitted(part) == part = <<"*">> \/ \A i \in DOMAIN part : IsAlnum(part[i]) \/ part[i] \in {"-", "X"}
StandsFor(l, label) ==   \* a label with a star, and one of the subject
  \E i \in DOMAIN l : l[i] = "*" /\
    \E n \in 0..Len(label) : /\ n = Len(label) - Len(l) + 1
                             /\ SameIgnoringCase(FirstPart(l, i - 1), FirstPart(label, i - 1))
                             /\ SameIgnoringCase(From(l, i + 1), LastPart(label, Len(l) - i))
                             /\ Permitted(SubSeq(label, i, i + n - 1))
                             /\ IF l = <<"*">> THEN n > 0 ELSE label[1] # "X"
SameLabels(p, s) == Len(p) = Len(s) /\ \A i \in DOMAIN p : SameIgnoringCase(p[i], s[i])
ByLabel(p, s, flags) ==
  \/ SameLabels(Tail(p), Tail(s)) /\ StandsFor(p[1], s[1])
  \/ /\ "MULTI_LABEL_WILDCARDS" \in flags /\ p[1] = <<"*">> /\ Len(s) > Len(p)
     /\ SameLabels(Tail(p), LastPart(s, Len(p) - 1))
     /\ \A i \in 1..(Len(s) - Len(p) + 1), j \in 1..9 :
          j \in DOMAIN s[i] => IsAlnum(s[i][j]) \/ s[i][j] \in {"-", "X"}
BelowDomain(pattern, subject, flags) ==
  LET n == Len(pattern) - Len(subject) IN
  /\ IsSubdomainOf(subject) /\ n > 0
  /\ SameIgnoringCase(LastPart(pattern, Len(subject)), subject)
  /\ \A i \in 1..n : pattern[i] # "0" /\ ("SINGLE_LABEL_SUBDOMAINS" \in flags => pattern[i] # ".")
HostMatches(pattern, subject, flags) ==
  \/ SameIgnoringCase(pattern, subject)
  \/ BelowDomain(pattern, subject, flags)
  \/ /\ ~IsSubdomainOf(subject) /\ GoodPattern(pattern, flags)
     /\ ByLabel(Labels(pattern), Labels(subject), flags)

(* A host is matched by an equal name, by a name below it if it starts with *)
(* a dot, and else by a star that stands for a label or the start or end of  *)
(* one, of a well-formed pattern of three labels. The star has to be seen to *)
(* end its label, see EndsLabel.                                             *)
StarIsSeen(c) ==
  \A i \in DOMAIN c.pattern : c.pattern[i] = "*" =>
    \/ i = 1 /\ "NO_PARTIAL_WILDCARDS" \notin c.flags
    \/ EndsLabel(c.pattern, i, c.beyond) = (i = Len(c.pattern) \/ c.pattern[i + 1] = ".")
HostsAreMatched ==
  Calculated("equal_wildcard") /\ StarIsSeen(calc.in) =>
    calc.out = HostMatches(calc.in.pattern, calc.in.subject, calc.in.flags)

(* An address is matched in its host without regard to case, in its local   *)
(* part with (equal_email); one without a local part is compared as it is.   *)
MailMatches(a, b) ==
  \E i \in DOMAIN a : /\ a[i] = "@" /\ i \in DOMAIN b /\ ~Has(From(a, i + 1), "@")
                      /\ FirstPart(a, i) = FirstPart(b, i) /\ SameIgnoringCase(From(a, i), From(b, i))
MailsAreMatched ==
  Calculated("equal_email") =>
    LET a == calc.in[1]   b == calc.in[2] IN
    IF Has(Tail(a), "@") THEN calc.out = MailMatches(a, b) ELSE calc.out = (a = b)

(* A certificate is for a host only if one of its names is: of the           *)
(* alternative names of the type, and of the subject only without those,     *)
(* unless asked for (do_x509_check).                                         *)
NamesAreThose ==
  Calculated("do_x509_check") /\ calc.in.type = "dns" /\ calc.out
    /\ (\A n \in calc.in.names : n.converts) =>
    \E n \in calc.in.sans \cup (IF UsesSubject(calc.in) THEN calc.in.names ELSE {}) :
      /\ n.type \in {"dns", "cn"} /\ n.value # <<>>
      /\ IF "NO_WILDCARDS" \in calc.in.flags
         THEN SameIgnoringCase(n.value, calc.in.chk) \/ BelowDomain(n.value, calc.in.chk, calc.in.flags)
         ELSE HostMatches(n.value, calc.in.chk, calc.in.flags)

(* A constraint covers what ends in it: a domain with whole labels, an       *)
(* address in its host, a URI in its host (the part from // to the next      *)
(* colon or slash, if no slash comes before the first colon).                *)
SuffixOf(base, s) == Len(base) <= Len(s) /\ EqualStrings(base, LastPart(s, Len(base)))
LabelSuffix(base, s) == EqualStrings(base, s) \/ (SuffixOf(<<".">> \o base, s))
Covers(host, base) ==
  IF base # <<>> /\ base[1] = "." THEN SuffixOf(base, host) /\ Len(host) > Len(base)
  ELSE EqualStrings(host, base)
UriHost(rest) == FirstPart(rest, CHOOSE n \in 0..Len(rest) :
                   /\ \A i \in 1..n : rest[i] \notin {":", "/"}
                   /\ n = Len(rest) \/ rest[n + 1] \in {":", "/"})
InTree(c) ==
  CASE c.type = "dns" -> c.base = <<>> \/ LabelSuffix(c.base, c.name)
    [] c.type = "email" ->
         LET host == From(c.name, FirstAt(c.name, "@") + 1) IN
         IF Has(c.base, "@")
         THEN /\ EqualStrings(From(c.base, FirstAt(c.base, "@") + 1), host)
              /\ FirstAt(c.base, "@") > 1 => FirstPart(c.base, FirstAt(c.base, "@")) = FirstPart(c.name, FirstAt(c.name, "@"))
         ELSE Covers(host, c.base) \/ (Has(c.base, ".") /\ c.base[1] = "." /\ EqualStrings(host, c.base))
    [] c.type = "uri" -> Covers(UriHost(AfterScheme(c.name)), c.base)
    [] c.type = "dn" -> Len(c.base) <= Len(c.name) /\ FirstPart(c.name, Len(c.base)) = c.base
TreesCover ==
  Calculated("nc_match_single") /\ calc.out # BadSyntax
    /\ (calc.in.type = "uri" => FirstAt(AfterScheme(calc.in.name), ":") = 0
          \/ ~Has(FirstPart(AfterScheme(calc.in.name), FirstAt(AfterScheme(calc.in.name), ":")), "/")) =>
    calc.out = Answer(InTree(calc.in))

(* A name passes if it is in a permitted tree, where there are any, and in  *)
(* no excluded one; a tree with a minimum is never ignored.                  *)
TreesDecide ==
  Calculated("nc_match") =>
    LET p == calc.in.permitted   e == calc.in.excluded IN
    /\ calc.out = "ok" => /\ p = <<>> \/ Has(p, "match")
                         /\ ~Has(e, "match") /\ ~Has(p \o e, "minmax") /\ ~Has(e, BadSyntax)
    /\ ~Has(p \o e, "minmax") /\ ~Has(p \o e, BadSyntax) =>
         (calc.out = "ok") = ((p = <<>> \/ Has(p, "match")) /\ ~Has(e, "match"))

(* Text is an address if it spells all bytes or has one :: for some that are *)
(* zero (ipv6_from_asc); a lone colon is taken for ::.                       *)
Empty == [kind |-> "empty"]
Spelling(left, right) ==
  (IF left = <<>> THEN <<Empty>> ELSE left) \o <<Empty>> \o (IF right = <<>> THEN <<Empty>> ELSE right)
BytesOf(elems) == FoldLeft(LAMBDA b, e : b \o e.bytes, <<>>, elems)
Proper(elems, end) ==   \* the dotted form may only be at the end
  \A i \in DOMAIN elems :
    elems[i].kind \notin {"empty", "bad"} /\ (elems[i].kind = "v4" => end /\ i = Len(elems))
Spells(elems, bytes) ==
  \/ Proper(elems, TRUE) /\ BytesOf(elems) = bytes
  \/ \E i, j \in 0..Len(elems) :
       LET left == FirstPart(elems, i)   right == From(elems, j + 1)   n == Len(BytesOf(left \o right)) IN
       /\ i <= j /\ elems = Spelling(left, right) /\ Proper(left, FALSE) /\ Proper(right, TRUE)
       /\ n < AddressSize /\ bytes = BytesOf(left) \o [k \in 1..(AddressSize - n) |-> 0] \o BytesOf(right)
AddressesAreRead ==
  Calculated("ipv6_from_asc") /\ calc.in # <<Empty, Empty>> =>
    IF calc.out # <<>> THEN Len(calc.out) = AddressSize /\ Spells(calc.in, calc.out)
    ELSE \A i, j \in 0..Len(calc.in) :
           LET left == FirstPart(calc.in, i)   right == From(calc.in, j + 1) IN
           ~(i <= j /\ calc.in = Spelling(left, right) /\ Proper(left, FALSE) /\ Proper(right, TRUE)
               /\ Len(BytesOf(left \o right)) < AddressSize)

(* A line is read as the names and values it was written from.              *)
Written(e) == e.name \o (IF e.has THEN <<":">> \o e.value ELSE <<>>)
LineOf(entries) == FoldLeft(LAMBDA l, i : l \o (IF i > 1 THEN <<",">> ELSE <<>>) \o Written(entries[i]),
                            <<>>, [i \in DOMAIN entries |-> i])
LinesAreRead ==
  Calculated("X509V3_parse_list") /\ calc.out # <<>> =>
    /\ X509V3_parse_list(LineOf(calc.out)) = calc.out
    /\ \A i \in DOMAIN calc.out : ~Has(calc.out[i].name, ":") /\ ~Has(calc.out[i].name \o calc.out[i].value, ",")

NamesAreMatched ==
  /\ HostsAreMatched /\ MailsAreMatched /\ NamesAreThose
  /\ TreesCover /\ TreesDecide /\ AddressesAreRead /\ LinesAreRead
=============================================================================

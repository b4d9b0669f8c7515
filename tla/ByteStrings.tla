----------------------------- MODULE ByteStrings -----------------------------
(* Writing and reading of byte strings with length prefixes, and of ASN.1    *)
(* elements (crypto/bytestring/cbb.c, cbs.c). A byte counts to Octet rather  *)
(* than to 256, and the parts of a tag and of a length byte shrink with it:  *)
(* the top bit of a length byte asks for the long form, the lowest bits of a *)
(* tag are its number.                                                       *)
EXTENDS Calculation, Integers, Sequences
LOCAL INSTANCE SequencesExt

CONSTANTS
  Octet,          \* the values of a byte: 256, or another power of two from 32
  MAX_DEPTH,      \* levels of indefinite lengths that are followed
  WriterCases,    \* [cap, ops]: a buffer and the calls of a writer
  ElementCases    \* [bytes, ber]: strings to read an element from

HighBit == Octet \div 2
CONSTRUCTED == Octet \div 8
NumberMask == Octet \div 8 - 1
Digits(v, n) == [i \in 1..n |-> (v \div Octet ^ (n - i)) % Octet]
ValueOf(bytes) == FoldLeft(LAMBDA v, b : v * Octet + b, 0, bytes)
------------------------------------------------------------------------------
(* Writing. A CBB has at most one child under way, whose length prefix is    *)
(* pending; kids are the children from the top level down. Growing is        *)
(* possible only if cap is -1 (CBB_init), else the buffer is fixed. A caller *)
(* whose call failed makes no more.                                          *)
NewWriter(cap) == [buf |-> <<>>, cap |-> cap, kids |-> <<>>, ok |-> TRUE]
Failing(s) == [s EXCEPT !.ok = FALSE]

cbb_buffer_add(s, bytes) ==
  IF s.cap >= 0 /\ Len(s.buf) + Len(bytes) > s.cap THEN Failing(s)
  ELSE [s EXCEPT !.buf = @ \o bytes]

(* How long the length gets, its first byte included.                        *)
LengthLength(len) ==
  IF len > Octet ^ 3 - 1 THEN 5 ELSE IF len > Octet ^ 2 - 1 THEN 4
  ELSE IF len > Octet - 1 THEN 3 ELSE IF len > HighBit - 1 THEN 2 ELSE 1
DerLength(len) ==
  IF LengthLength(len) = 1 THEN <<len>>
  ELSE <<HighBit + LengthLength(len) - 1>> \o Digits(len, LengthLength(len) - 1)

Contents(s, kid) == SubSeq(s.buf, kid.offset + kid.pending_len_len + 1, Len(s.buf))
Above(s) == SubSeq(s.kids, 1, Len(s.kids) - 1)

(* An ASN.1 child left one byte for its length; what it wrote moves along    *)
(* when that is not enough.                                                  *)
(* mutant: what the length needs is not made room for                        *)
CloseAsn1InPlace(s, kid, body) ==
  [s EXCEPT !.buf = SubSeq(@, 1, kid.offset) \o DerLength(Len(body))
                    \o SubSeq(body, LengthLength(Len(body)), Len(body)),
            !.kids = Above(s)]
CloseAsn1(s, kid, body) ==
  IF s.cap >= 0 /\ Len(s.buf) + LengthLength(Len(body)) - 1 > s.cap THEN Failing(s)
  ELSE [s EXCEPT !.buf = SubSeq(@, 1, kid.offset) \o DerLength(Len(body)) \o body,
                 !.kids = Above(s)]
ClosePrefixed(s, kid, body) ==
  IF Len(body) >= Octet ^ kid.pending_len_len THEN Failing(s)
  ELSE [s EXCEPT !.buf = SubSeq(@, 1, kid.offset) \o Digits(Len(body), kid.pending_len_len) \o body,
                 !.kids = Above(s)]
CloseChild(s, kid) ==
  IF kid.is_asn1 THEN CloseAsn1(s, kid, Contents(s, kid)) ELSE ClosePrefixed(s, kid, Contents(s, kid))

(* The CBB of a level: its child is flushed before its prefix is written.    *)
RECURSIVE CBB_flush(_, _)
CBB_flush(s, level) ==
  IF ~s.ok \/ Len(s.kids) <= level THEN s
  ELSE CBB_flush(CloseChild(s, Last(s.kids)), level)

AddsAt(s, op) == IF s.ok THEN cbb_buffer_add(s, op.bytes) ELSE s
OpensAt(s, op) ==
  IF ~s.ok THEN s
  ELSE [cbb_buffer_add(s, op.bytes \o [i \in 1..op.len_len |-> 0])
          EXCEPT !.kids = Append(@, [offset |-> Len(s.buf) + Len(op.bytes),
                                     pending_len_len |-> op.len_len, is_asn1 |-> op.kind = "asn1"])]
CBB_add_bytes(s, op) == AddsAt(CBB_flush(s, op.level), op)
cbb_add_length_prefixed(s, op) == OpensAt(CBB_flush(s, op.level), op)
CBB_add_asn1(s, op) == OpensAt(CBB_flush(s, op.level), op)

(* A call on a CBB whose base is gone (its parent was written to) fails.     *)
WriterCall(s, op) ==
  IF ~s.ok THEN s
  ELSE IF op.level > Len(s.kids) THEN Failing(s)
  ELSE CASE op.kind = "bytes" -> CBB_add_bytes(s, op)
         [] op.kind = "prefix" -> cbb_add_length_prefixed(s, op)
         [] op.kind = "asn1" -> CBB_add_asn1(s, op)
CBB_finish(s) == CBB_flush(s, 0)
Written(c) == CBB_finish(FoldLeft(WriterCall, NewWriter(c.cap), c.ops))
------------------------------------------------------------------------------
(* Reading. NoElement says that the string is refused.                       *)
NoElement == [ok |-> FALSE]
ElementAt(at, header, len, tag, indefinite, next) ==
  [ok |-> TRUE, at |-> at, header |-> header, len |-> len, tag |-> tag,
   indefinite |-> indefinite, next |-> next]

HasBytes(d, at, n) == at + n - 1 <= Len(d)
cbs_get_u(d, at, n) == ValueOf(SubSeq(d, at, at + n - 1))

ShortForm(d, at) ==
  IF HasBytes(d, at, 2 + d[at + 1])
  THEN ElementAt(at, 2, 2 + d[at + 1], d[at], FALSE, at + 2 + d[at + 1]) ELSE NoElement
(* A long form has to be needed, and to have no leading zero.                *)
LongFormAnyway(d, at, n) ==   \* mutant: however short the length is
  IF /\ n \in 1..4 /\ HasBytes(d, at + 2, n)
     /\ cbs_get_u(d, at + 2, n) \div Octet ^ (n - 1) # 0
     /\ HasBytes(d, at, 2 + n + cbs_get_u(d, at + 2, n))
  THEN ElementAt(at, 2 + n, 2 + n + cbs_get_u(d, at + 2, n), d[at], FALSE,
                 at + 2 + n + cbs_get_u(d, at + 2, n))
  ELSE NoElement
LongForm(d, at, n) ==
  IF /\ n \in 1..4 /\ HasBytes(d, at + 2, n)
     /\ cbs_get_u(d, at + 2, n) >= HighBit
     /\ cbs_get_u(d, at + 2, n) \div Octet ^ (n - 1) # 0
     /\ HasBytes(d, at, 2 + n + cbs_get_u(d, at + 2, n))
  THEN ElementAt(at, 2 + n, 2 + n + cbs_get_u(d, at + 2, n), d[at], FALSE,
                 at + 2 + n + cbs_get_u(d, at + 2, n))
  ELSE NoElement

(* Elements up to the end-of-contents, which is not part of what is handed   *)
(* out.                                                                      *)
IsEnd(e) == ~e.indefinite /\ e.len = 2 /\ e.header = 2 /\ e.tag = 0
RECURSIVE cbs_get_asn1_element(_, _, _), cbs_get_asn1_indefinite_len(_, _, _, _)
cbs_get_asn1_indefinite_len(d, at, e, depth) ==
  IF ~e.ok THEN NoElement
  ELSE IF IsEnd(e) THEN ElementAt(at, 2, e.at - at, d[at], TRUE, e.next)
  ELSE cbs_get_asn1_indefinite_len(d, at, cbs_get_asn1_element(d, e.next, depth + 1), depth)
cbs_get_asn1_element(d, at, depth) ==
  IF ~HasBytes(d, at, 2) \/ d[at] % (NumberMask + 1) = NumberMask THEN NoElement
  ELSE IF d[at + 1] < HighBit THEN ShortForm(d, at)
  ELSE IF (d[at] \div CONSTRUCTED) % 2 = 1 /\ depth < MAX_DEPTH /\ d[at + 1] = HighBit
  THEN cbs_get_asn1_indefinite_len(d, at, cbs_get_asn1_element(d, at + 2, depth + 1), depth)
  ELSE LongForm(d, at, d[at + 1] - HighBit)

(* DER is read as if the levels of indefinite lengths were used up.          *)
CBS_get_any(c) == cbs_get_asn1_element(c.bytes, 1, IF c.ber THEN 0 ELSE MAX_DEPTH)
BodyOf(d, e) == SubSeq(d, e.at + e.header, e.at + e.len - 1)
------------------------------------------------------------------------------
ByteStringsNext ==
  /\ calc = NotCalculated
  /\ \/ \E c \in WriterCases : Calculates("CBB", c, Written(c))
     \/ \E c \in ElementCases : Calculates("CBS_get_asn1_element", c, CBS_get_any(c))

(* What a writer hands out is the nesting of the calls: every prefix is the  *)
(* length of what its CBB and those below it wrote, however lengths that     *)
(* were written in between grew (CBB_flush), and a fixed buffer or a prefix  *)
(* that is too short is the only reason to fail.                             *)
RECURSIVE Nested(_, _, _)
EndOfChild(ops, i, level) ==
  LET later == {j \in (i + 1)..Len(ops) : ops[j].level <= level}
  IN  IF later = {} THEN Len(ops) + 1 ELSE CHOOSE j \in later : \A k \in later : j <= k
Prefixed1(op, body) ==
  op.bytes \o (IF op.kind = "asn1" THEN DerLength(Len(body)) ELSE Digits(Len(body), op.len_len)) \o body
Nested(ops, i, to) ==
  IF i >= to THEN <<>>
  ELSE IF ops[i].kind = "bytes" THEN ops[i].bytes \o Nested(ops, i + 1, to)
  ELSE LET end == EndOfChild(ops, i, ops[i].level)
       IN  Prefixed1(ops[i], Nested(ops, i + 1, end)) \o Nested(ops, end, to)
PrefixesFit(ops) ==
  \A i \in DOMAIN ops : ops[i].kind = "prefix" =>
     Len(Nested(ops, i + 1, EndOfChild(ops, i, ops[i].level))) < Octet ^ ops[i].len_len
LevelsAreOpen(ops) ==
  \A i \in DOMAIN ops : ops[i].level = 0
    \/ \E j \in 1..(i - 1) : ops[j].kind # "bytes" /\ ops[j].level = ops[i].level - 1
                              /\ \A k \in (j + 1)..(i - 1) : ops[k].level > ops[j].level
WritersNest ==
  Calculated("CBB") =>
    LET ops == calc.in.ops IN
    IF calc.out.ok
    THEN LevelsAreOpen(ops) /\ calc.out.buf = Nested(ops, 1, Len(ops) + 1) /\ PrefixesFit(ops)
    ELSE ~LevelsAreOpen(ops) \/ ~PrefixesFit(ops)
           \/ (calc.in.cap >= 0 /\ Len(Nested(ops, 1, Len(ops) + 1)) > calc.in.cap)

(* An element that is accepted is well formed, and nothing well formed is    *)
(* refused: in DER a tag, the shortest form of the length and so many bytes, *)
(* in BER also a constructed tag, elements and an end-of-contents.           *)
RECURSIVE Shaped(_, _, _)
Shaped(d, at, levels) ==   \* the ends of the elements that start at a place
  LET bodies == {n \in 0..(Len(d) - at) :
                   /\ LengthLength(n) + n <= Len(d) - at
                   /\ SubSeq(d, at + 1, at + LengthLength(n)) = DerLength(n)}
      definite == {at + 1 + LengthLength(n) + n : n \in bodies}
      RECURSIVE Runs(_)
      Runs(from) == LET more == UNION {Shaped(d, b, levels - 1) : b \in from}
                    IN  IF more \subseteq from THEN from ELSE Runs(from \cup more)
      IsEoc(p) == p + 1 <= Len(d) /\ d[p] = 0 /\ d[p + 1] = 0
  IN  IF at >= Len(d) \/ d[at] % (NumberMask + 1) = NumberMask THEN {}
      ELSE IF levels > 0 /\ (d[at] \div CONSTRUCTED) % 2 = 1 /\ d[at + 1] = HighBit
      THEN {p + 2 : p \in {q \in Runs({at + 2}) : IsEoc(q)}}
      ELSE definite
ElementsAreShaped ==
  Calculated("CBS_get_asn1_element") =>
    LET ends == Shaped(calc.in.bytes, 1, IF calc.in.ber THEN MAX_DEPTH ELSE 0) IN
    IF calc.out.ok
    THEN /\ calc.out.next \in ends /\ \A p \in ends : calc.out.next <= p
         /\ calc.out.len = calc.out.next - 1 - (IF calc.out.indefinite THEN 2 ELSE 0)
    ELSE ends = {}

StringsAreRead == WritersNest /\ ElementsAreShaped
=============================================================================

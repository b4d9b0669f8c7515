---------------------------- MODULE CertPolicies ----------------------------
(* Certificate policies (crypto/x509v3/pcy_*.c): the tree of the policies    *)
(* that are valid along a chain, level by level from the trust anchor down,  *)
(* and whether one that the caller accepts is left.                          *)
(*                                                                           *)
(* A certificate is [policies, maps, explicit_skip, any_skip, map_skip,      *)
(* self_issued, bad]: maps is a sequence of [from, to], a skip is -1 where   *)
(* the extension is absent, bad says that one of the extensions cannot be    *)
(* used (a duplicate, or a mapping of anyPolicy). A chain starts below the   *)
(* trust anchor and ends with the leaf.                                      *)
EXTENDS Calculation, Integers, Sequences
LOCAL INSTANCE SequencesExt
LOCAL INSTANCE TLC

CONSTANTS
  PolicyChains,     \* the chains, without the trust anchor
  PolicyRequests    \* [user, explicit, inhibit_any, inhibit_map]

AnyPolicy == "anyPolicy"
------------------------------------------------------------------------------
(* What a certificate says: one datum for each policy, anyPolicy apart. A    *)
(* policy that is mapped but not listed gets one of its own if anyPolicy is  *)
(* listed.                                                                   *)
Targets(c, id) == {c.maps[i].to : i \in {j \in DOMAIN c.maps : c.maps[j].from = id}}
MapsOf(c, id) == {j \in DOMAIN c.maps : c.maps[j].from = id}
MAP_MASK(data) == data.MAPPED \/ data.MAPPED_ANY
policy_data_new(id) == [id |-> id, MAPPED |-> FALSE, MAPPED_ANY |-> FALSE, expected |-> {}]

ListedData(c) ==
  {[policy_data_new(id) EXCEPT !.MAPPED = MapsOf(c, id) # {}, !.expected = Targets(c, id)] :
     id \in c.policies \ {AnyPolicy}}
(* The first mapping makes the datum, a second one finds it.                 *)
DataFromAny(c) ==
  {[policy_data_new(id) EXCEPT !.MAPPED_ANY = TRUE, !.expected = Targets(c, id),
                               !.MAPPED = \E i, j \in MapsOf(c, id) : i # j] :
     id \in IF AnyPolicy \in c.policies
            THEN {c.maps[i].from : i \in DOMAIN c.maps} \ c.policies ELSE {}}
policy_cache_set(c) == ListedData(c) \cup DataFromAny(c)
------------------------------------------------------------------------------
(* Each of the three counters is lowered by certificates that are not self-  *)
(* issued, and by what a certificate asks for itself.                        *)
Skips(certs, request) ==
  [explicit |-> IF request.explicit THEN 0 ELSE Len(certs) + 2,
   any |-> IF request.inhibit_any THEN 0 ELSE Len(certs) + 2,
   map |-> IF request.inhibit_map THEN 0 ELSE Len(certs) + 2]
Lowered1(skip, c, own) ==
  IF skip = 0 THEN 0
  ELSE LET left == IF c.self_issued THEN skip ELSE skip - 1
       IN  IF own # -1 /\ own < left THEN own ELSE left
AfterCert(s, c) ==
  [explicit |-> Lowered1(s.explicit, c, c.explicit_skip),
   any |-> Lowered1(s.any, c, c.any_skip), map |-> Lowered1(s.map, c, c.map_skip)]
SkipsBefore(certs, request, i) ==
  FoldLeft(AfterCert, Skips(certs, request), SubSeq(certs, 1, i - 1))

ExplicitPolicy(certs, request) == SkipsBefore(certs, request, Len(certs) + 1).explicit = 0
InhibitsAny(certs, request, i) ==
  \/ AnyPolicy \notin certs[i].policies
  \/ /\ SkipsBefore(certs, request, i).any = 0
     /\ ~certs[i].self_issued \/ i = Len(certs)
InhibitsMap(certs, request, i) == SkipsBefore(certs, request, i).map = 0

(* The outcome of tree_init without a tree: 0 goes on with one.              *)
Undecided == 0
tree_init(certs, request) ==
  IF \E i \in DOMAIN certs : certs[i].bad THEN -1
  ELSE IF \E i \in DOMAIN certs : certs[i].policies = {}
  THEN IF ExplicitPolicy(certs, request) THEN 6 ELSE 2
  ELSE Undecided
------------------------------------------------------------------------------
(* A level has its flags, its nodes and perhaps an anyPolicy; a node is its  *)
(* datum and the path of the policies above it. The path of an anyPolicy has *)
(* nothing else in it.                                                       *)
AnyPath(i) == [j \in 1..i |-> AnyPolicy]
Node(parent, data) == [path |-> Append(parent, data.id), data |-> data]
Parent(node) == Front(node.path)
RootLevel == [nodes |-> {}, any |-> TRUE, inhibit_map |-> FALSE, inhibit_any |-> FALSE]
NewLevel(certs, request, i) ==
  [nodes |-> {}, any |-> FALSE, inhibit_map |-> InhibitsMap(certs, request, i),
   inhibit_any |-> InhibitsAny(certs, request, i)]
Children(level, parent) == {n \in level.nodes : Parent(n) = parent}

policy_node_match(last, node, id) ==
  IF last.inhibit_map \/ ~MAP_MASK(node.data) THEN node.data.id = id
  ELSE id \in node.data.expected

(* Every datum is linked to the nodes it matches, to anyPolicy if to none.   *)
LinksOf(last, i, data) ==
  LET matched == {n \in last.nodes : policy_node_match(last, n, data.id)}
  IN  IF matched # {} THEN {Node(n.path, data) : n \in matched}
      ELSE IF last.any THEN {Node(AnyPath(i), data)} ELSE {}
tree_link_nodes(curr, last, i, c) ==
  [curr EXCEPT !.nodes = UNION {LinksOf(last, i, data) : data \in policy_cache_set(c)}]

(* Where anyPolicy is allowed, the policies of the level above that are not  *)
(* matched go on below it.                                                   *)
(* mutant: one matching child is enough where a policy is mapped to several  *)
UnmatchedIfNone(curr, last, node) ==
  IF Children(curr, node.path) # {} THEN {} ELSE {node.data.id}
UnmatchedIds(curr, last, node) ==
  IF last.inhibit_map \/ ~node.data.MAPPED
  THEN IF Children(curr, node.path) # {} THEN {} ELSE {node.data.id}
  ELSE {id \in node.data.expected : \A n \in Children(curr, node.path) : n.data.id # id}
tree_link_unmatched(curr, last, node) ==
  {Node(node.path, policy_data_new(id)) : id \in UnmatchedIds(curr, last, node)}
tree_link_any(curr, last) ==
  [curr EXCEPT !.nodes = @ \cup UNION {tree_link_unmatched(curr, last, n) : n \in last.nodes},
               !.any = last.any]

(* Mapped policies go where mapping is inhibited, then whatever has no       *)
(* children, level by level upwards.                                         *)
(* mutant: only policies that are listed are taken for mapped                *)
WithoutListedMapped(curr) ==
  IF curr.inhibit_map THEN [curr EXCEPT !.nodes = {n \in @ : ~n.data.MAPPED}] ELSE curr
WithoutMapped(curr) ==
  IF curr.inhibit_map THEN [curr EXCEPT !.nodes = {n \in @ : ~MAP_MASK(n.data)}] ELSE curr
PrunedBy(level, below, i) ==
  [level EXCEPT !.nodes = {n \in @ : Children(below, n.path) # {}},
                !.any = @ /\ (below.any \/ Children(below, AnyPath(i)) # {})]
tree_prune(levels) ==   \* levels from the root down; the last one is new
  FoldLeft(LAMBDA done, i : <<PrunedBy(levels[i], Head(done), i)>> \o done,
           <<WithoutMapped(Last(levels))>>, [j \in 1..(Len(levels) - 1) |-> Len(levels) - j])

LinkedLevel(linked, last) == IF linked.inhibit_any THEN linked ELSE tree_link_any(linked, last)
GrownLevel(certs, request, levels) ==
  LinkedLevel(tree_link_nodes(NewLevel(certs, request, Len(levels)), Last(levels), Len(levels),
                              certs[Len(levels)]), Last(levels))
TreeIsEmpty(levels) == ~levels[1].any
tree_evaluate(certs, request) ==
  FoldLeft(LAMBDA levels, c : IF TreeIsEmpty(levels) THEN levels
                              ELSE tree_prune(Append(levels, GrownLevel(certs, request, levels))),
           <<RootLevel>>, certs)
------------------------------------------------------------------------------
(* The policies of the authority are those right below an anyPolicy, and any *)
(* at all if the leaf still has that one.                                    *)
AuthorityNodes(levels) ==
  UNION {Children(levels[i + 1], AnyPath(i)) :
           i \in {j \in 1..(Len(levels) - 1) : \A k \in 1..j : levels[k].any}}
tree_calculate_authority_set(levels) ==
  IF Last(levels).any THEN {AnyPolicy} ELSE {n.data.id : n \in AuthorityNodes(levels)}
tree_calculate_user_set(levels, user) ==
  IF AnyPolicy \in user THEN tree_calculate_authority_set(levels)
  ELSE IF Last(levels).any THEN user
  ELSE user \cap {n.data.id : n \in AuthorityNodes(levels)}

(* 1 is success; the set is what X509_policy_tree_get0_user_policies returns.*)
PolicyAnswer(code, explicit, policies) ==
  [code |-> code, explicit |-> explicit, policies |-> policies]
CheckedTree(levels, explicit, user) ==
  IF TreeIsEmpty(levels) THEN PolicyAnswer(IF explicit THEN -2 ELSE 1, explicit, {})
  ELSE IF explicit /\ tree_calculate_user_set(levels, user) = {}
  THEN PolicyAnswer(-2, explicit, {})
  ELSE PolicyAnswer(1, explicit, tree_calculate_user_set(levels, user))
X509_policy_check(certs, request) ==
  CASE certs = <<>> -> PolicyAnswer(1, FALSE, {})   \* nothing but a trust anchor
    [] tree_init(certs, request) = -1 -> PolicyAnswer(-1, FALSE, {})
    [] tree_init(certs, request) = 2 -> PolicyAnswer(1, FALSE, {})
    [] tree_init(certs, request) = 6 -> PolicyAnswer(-2, TRUE, {})
    [] OTHER -> CheckedTree(tree_evaluate(certs, request), ExplicitPolicy(certs, request),
                            request.user)

(* What the callback of a verification is told, which may override it: of    *)
(* bad extensions only those above the leaf.                                 *)
check_policy(certs, request) ==
  CASE X509_policy_check(certs, request).code = -1 ->
         IF \E i \in 1..(Len(certs) - 1) : certs[i].bad
         THEN "INVALID_POLICY_EXTENSION" ELSE "OK"
    [] X509_policy_check(certs, request).code = -2 -> "NO_EXPLICIT_POLICY"
    [] OTHER -> "OK"

CertPoliciesNext ==
  /\ calc = NotCalculated
  /\ \E certs \in PolicyChains, request \in PolicyRequests :
       Calculates("X509_policy_check", [certs |-> certs, request |-> request],
                  X509_policy_check(certs, request) @@ [told |-> check_policy(certs, request)])
------------------------------------------------------------------------------
(* The definition that the comments of pcy_tree.c refer to (RFC 3280, 6.1):  *)
(* a path names, level by level, the policy a certificate is read as; want   *)
(* is what the next certificate has to list. Nothing is pruned: a path that  *)
(* ends is not continued.                                                    *)
MayMap(certs, request, i) == ~InhibitsMap(certs, request, i) /\ i < Len(certs)
Want(certs, request, i, id) ==
  IF MayMap(certs, request, i) /\ Targets(certs[i], id) # {} THEN Targets(certs[i], id) ELSE {id}
Drops(certs, request, i, id) ==
  InhibitsMap(certs, request, i) /\ i < Len(certs) /\ MapsOf(certs[i], id) # {}

(* A step is a path and the policy it goes on with: what the certificate     *)
(* lists, then what anyPolicy stands for, then what mapping takes out of it. *)
Onto(above, i, id) ==
  IF \E p \in above : id \in p.want THEN {p \in above : id \in p.want}
  ELSE {p \in above : p.path = AnyPath(i)}
Explicit(c, i, above) ==
  UNION {Onto(above, i, id) \X {id} : id \in c.policies \ {AnyPolicy}}
Implied(above) == UNION {{p} \X p.want : p \in above}
Listed(certs, request, i, above) ==
  IF InhibitsAny(certs, request, i) THEN Explicit(certs[i], i, above)
  ELSE Explicit(certs[i], i, above) \cup Implied(above)
Extracted(c, i, above, steps) ==
  IF \E q \in steps : q[2] = AnyPolicy
  THEN {p \in above : p.path = AnyPath(i)}
         \X {m.from : m \in {c.maps[j] : j \in {k \in DOMAIN c.maps : \A q \in steps : q[2] # c.maps[k].from}}}
  ELSE {}
Steps(certs, request, i, above, listed) ==
  IF MayMap(certs, request, i) THEN listed \cup Extracted(certs[i], i, above, listed) ELSE listed
PathsBy(certs, request, i, above) ==
  {[path |-> Append(q[1].path, q[2]), want |-> Want(certs, request, i, q[2])] :
     q \in {r \in Steps(certs, request, i, above, Listed(certs, request, i, above)) :
              ~Drops(certs, request, i, r[2])}}
PathsDown(certs, request) ==
  FoldLeft(LAMBDA above, i : PathsBy(certs, request, i, above),
           {[path |-> <<AnyPolicy>>, want |-> {AnyPolicy}]}, [i \in DOMAIN certs |-> i])
FirstNamed(path) ==
  IF \A i \in DOMAIN path : path[i] = AnyPolicy THEN AnyPolicy
  ELSE path[CHOOSE i \in DOMAIN path : path[i] # AnyPolicy /\ \A j \in 1..(i - 1) : path[j] = AnyPolicy]
Authorised(certs, request) == {FirstNamed(p.path) : p \in PathsDown(certs, request)}

UserPolicies(named, user) ==
  IF user = {} THEN {}
  ELSE IF AnyPolicy \in user THEN IF AnyPolicy \in named THEN {AnyPolicy} ELSE named
  ELSE IF AnyPolicy \in named THEN user ELSE user \cap named

(* Mappings out of anyPolicy are left out where the code treats them         *)
(* otherwise: they work where anyPolicy is inhibited, and an anyPolicy below *)
(* continues the policy itself rather than the one it is mapped to.          *)
MapsOutOfAny(c) == {c.maps[j].from : j \in DOMAIN c.maps} \ c.policies
MapsAsDefined(certs, request) ==
  \A i \in DOMAIN certs : MapsOutOfAny(certs[i]) # {} =>
    /\ InhibitsAny(certs, request, i) => AnyPolicy \notin certs[i].policies
    /\ i < Len(certs) => InhibitsAny(certs, request, i + 1)

(* The tree, with its links by number of children and its pruning, leaves    *)
(* the policies of the definition, and a chain is refused if a policy is     *)
(* demanded and the caller accepts none of them (an empty set of the caller  *)
(* accepts none). Nothing else goes unnoticed by the callback, but for bad   *)
(* extensions of the leaf.                                                   *)
ValidPolicies(certs, request, out) ==
  \E left \in {UserPolicies(Authorised(certs, request), request.user)} :
    /\ out.code = IF ExplicitPolicy(certs, request) /\ left = {} THEN -2 ELSE 1
    /\ out.code = 1 => out.policies = left
PoliciesAreValid ==
  Calculated("X509_policy_check") =>
    IF \E i \in DOMAIN calc.in.certs : calc.in.certs[i].bad
    THEN calc.out.code = -1 /\ (calc.out.told = "OK" => Last(calc.in.certs).bad)
    ELSE calc.in.certs # <<>> /\ MapsAsDefined(calc.in.certs, calc.in.request) =>
           ValidPolicies(calc.in.certs, calc.in.request, calc.out)
=============================================================================

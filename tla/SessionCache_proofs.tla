-------------------------- MODULE SessionCache_proofs --------------------------
(***************************************************************************)
(* The session cache for any sizes, sessions, threads and roles: what its  *)
(* properties need besides (Inv: reference counts are the holders, the     *)
(* list is a list of the table's sessions, IDs are unique; BoundInv; Alone)*)
(* and that it behaves as the store of SessionStore.                       *)
(***************************************************************************)
EXTENDS SessionCache, FiniteSetTheorems, SequenceTheorems, WellFoundedInduction, TLAPS

SessionOrNull == Session \cup {Null}
Sessions == [live : BOOLEAN, refs : Nat, id : Id \cup {Null}, time : Nat, dead : BOOLEAN,
             prev : Session \cup {Null, HeadPtr}, next : Session \cup {Null, TailPtr}]
Caches == [table : SUBSET (Id \X Session), head : SessionOrNull, tail : SessionOrNull]
Conns == [pc : PC, role : {"server", "client"}, sess : SessionOrNull, ret : SessionOrNull,
          back : {"idle", "notify", "given", "failed", "release"}, want : Id \cup {Null},
          hit : BOOLEAN, switched : BOOLEAN]

Types ==
  /\ cache \in Caches
  /\ lock \in Thread \cup {Null}
  /\ conn \in [Thread -> Conns]
  /\ ext \in SUBSET Session /\ pocket \in SessionOrNull /\ now \in 0..MaxTime

HasSess(c) ==
  \/ c.pc \in {"offered", "handshake", "notify", "up", "failed"}
  \/ c.pc \in {"add", "evict"} /\ c.back = "notify"
  \/ c.pc = "unlinked" /\ c.back = "failed"
HasRet(c) == c.pc \in {"found", "given", "store", "expired", "release", "add", "evict", "unlinked"}

(* A connection by itself; held says that its thread holds the lock.       *)
ConnOK(c, held) ==
  /\ HasSess(c) => c.sess \in Session
  /\ HasRet(c) <=> c.ret \in Session
  /\ c.pc \in {"idle", "flush"} => c.sess = Null
  /\ c.pc \in {"add", "evict"} => c.back = "given" \/ (c.back = "notify" /\ c.ret = c.sess)
  /\ c.pc = "unlinked" => c.back = "release" \/ (c.back = "failed" /\ c.ret = c.sess)
  /\ held <=> c.pc \in {"evict", "flush"}
ConnInv == \A t \in Thread : ConnOK(conn[t], lock = t)

(* Of the sessions that are found under an ID there is one.                *)
Unique(M, T) == \A e, f \in T : e[1] = f[1] /\ M[e[2]].id = e[1] /\ M[f[2]].id = f[1] => e = f
UniqueInv == Unique(mem, cache.table)

(* A session is in the bucket of its ID, unless IDs are renewed.           *)
NoRenewal == "renew" \notin Features
Filed(M, T) == \A e \in T : M[e[2]].id = e[1]
FiledInv == NoRenewal => Filed(mem, cache.table)

(* Memory M is sound where H[s] are the holders of session s: a session is *)
(* live exactly while it has holders, and counts them.                     *)
Sound(M, H) ==
  /\ M \in [Session -> Sessions]
  /\ \A s \in Session :
       /\ ~M[s].live => M[s] = Blank
       /\ M[s].live => M[s].id \in Id
       /\ IsFiniteSet(H[s])
       /\ M[s].refs = Cardinality(H[s])
       /\ M[s].live <=> M[s].refs # 0

(* What holds at most one session: the application's pocket and, of each   *)
(* connection, s->session, the session looked up, and what it is held for  *)
(* besides.                                                                *)
Fields == {"sess", "ret", "more"}
Place == ({"pocket"} \X {Null}) \cup (Fields \X Thread)
Use(c, f) ==
  IF f = "sess" THEN c.sess
  ELSE IF f = "ret" THEN (IF c.pc = "evict" THEN Null ELSE c.ret)
  ELSE IF HoldsMore(c) THEN c.ret ELSE Null
PlacesOf(K, a) == [p \in Place |-> IF p[1] = "pocket" THEN a ELSE Use(K[p[2]], p[1])]
Places == PlacesOf(conn, pocket)

(* The holders where the cache has table T, the application the sessions E *)
(* and the places hold P.                                                  *)
HoldersIn(T, E, P) ==
  [s \in Session |-> {h \in Holder : \/ h[1] = "table" /\ <<h[2], s>> \in T
                                     \/ h[1] = "ext" /\ s \in E
                                     \/ h \in Place /\ P[h] = s}]
Counted(M, T, E, P) == Sound(M, HoldersIn(T, E, P))

IsList(q, M, C) ==
  LET n == Len(q) IN
  /\ q \in Seq(Session)
  /\ \A i, j \in 1..n : q[i] = q[j] => i = j
  /\ C.head = IF n = 0 THEN Null ELSE q[1]
  /\ C.tail = IF n = 0 THEN Null ELSE q[n]
  /\ \A i \in 1..n : /\ M[q[i]].prev = IF i = 1 THEN HeadPtr ELSE q[i - 1]
                     /\ M[q[i]].next = IF i = n THEN TailPtr ELSE q[i + 1]
  /\ \A s \in Session : (\A i \in 1..n : q[i] # s) => M[s].prev = Null /\ M[s].next = Null
Elements(q) == {q[i] : i \in 1..Len(q)}

(* The list is of sessions in the table, and of all unless IDs are renewed. *)
Linked(M, C) ==
  \E q : /\ IsList(q, M, C) /\ Elements(q) \subseteq Cached(C)
         /\ NoRenewal => Elements(q) = Cached(C)
LinkedInv == Linked(mem, cache)

CountInv == Counted(mem, cache.table, ext, Places)
Inv == Types /\ CountInv /\ ConnInv /\ UniqueInv /\ FiledInv /\ LinkedInv

BoundInv == (\A t \in Thread : conn[t].pc # "evict") => Cardinality(cache.table) <= CacheSize

(* How the holders of session s change.                                    *)
Gained(H, G, s, h) == \A x \in Session : G[x] = IF x = s THEN H[x] \cup {h} ELSE H[x]
Lost(H, G, s, h) == \A x \in Session : G[x] = IF x = s THEN H[x] \ {h} ELSE H[x]
Passed(H, G, s, h, g) == \A x \in Session : G[x] = IF x = s THEN (H[x] \ {h}) \cup {g} ELSE H[x]
OnlyHolder(H, G, s, h) == \A x \in Session : G[x] = IF x = s THEN {h} ELSE H[x]

LEMMA Pointers ==
  /\ Null # HeadPtr /\ Null # TailPtr /\ HeadPtr # TailPtr
  /\ \A s \in Session : s # Null /\ s # HeadPtr /\ s # TailPtr
  /\ Null \notin Id /\ Null \notin Thread
BY PointersAssumption DEF PointersAssumption

LEMMA BlankFacts ==
  /\ Blank \in Sessions
  /\ Blank.live = FALSE /\ Blank.refs = 0 /\ Blank.time = 0 /\ Blank.dead = FALSE
  /\ Blank.prev = Null /\ Blank.next = Null /\ Blank.id = Null
BY DEF Blank, Sessions

LEMMA SoundLive ==
  ASSUME NEW M, NEW H, Sound(M, H), NEW s \in Session
  PROVE  /\ M[s].live <=> H[s] # {}
         /\ M[s].live => M[s].refs \in Nat \ {0}
<1>1. IsFiniteSet(H[s]) /\ M[s].refs = Cardinality(H[s]) /\ (M[s].live <=> M[s].refs # 0)
      /\ M[s].refs \in Nat
  BY DEF Sound, Sessions
<1>2. Cardinality(H[s]) = 0 <=> H[s] = {}
  BY <1>1, FS_EmptySet
<1> QED BY <1>1, <1>2

(* One more holder, with a reference of its own.                           *)
LEMMA SoundUpRef ==
  ASSUME NEW M, NEW H, Sound(M, H), NEW s \in Session, M[s].live,
         NEW h, h \notin H[s],
         NEW G, Gained(H, G, s, h)
  PROVE  Sound(UpRef(M, s), G)
<1>1. /\ IsFiniteSet(G[s]) /\ Cardinality(G[s]) = Cardinality(H[s]) + 1
  <2>1. G[s] = H[s] \cup {h} /\ IsFiniteSet(H[s])
    BY DEF Sound, Gained
  <2>2. IsFiniteSet(H[s] \cup {h}) /\ Cardinality(H[s] \cup {h}) = Cardinality(H[s]) + 1
    BY <2>1, FS_AddElement, Zenon
  <2> QED BY <2>1, <2>2
<1>2. M[s].refs \in Nat /\ M[s] \in Sessions /\ M[s].refs = Cardinality(H[s])
  BY DEF Sound, Sessions
<1>3. UpRef(M, s) = [M EXCEPT ![s] = [M[s] EXCEPT !.refs = M[s].refs + 1]]
  BY DEF UpRef, Sound
<1>4. UpRef(M, s) \in [Session -> Sessions]
  BY <1>2, <1>3 DEF Sound, Sessions
<1>5. ASSUME NEW x \in Session
      PROVE /\ ~UpRef(M,s)[x].live => UpRef(M,s)[x] = Blank
            /\ UpRef(M,s)[x].live => UpRef(M,s)[x].id \in Id
            /\ IsFiniteSet(G[x])
            /\ UpRef(M,s)[x].refs = Cardinality(G[x])
            /\ UpRef(M,s)[x].live <=> UpRef(M,s)[x].refs # 0
  <2>1. CASE x = s
    BY <2>1, <1>1, <1>2, <1>3 DEF Sound, Sessions
  <2>2. CASE x # s
    BY <2>2, <1>3 DEF Sound, Gained
  <2> QED BY <2>1, <2>2
<1> QED BY <1>4, <1>5 DEF Sound

(* One holder less; the last one frees the session.                        *)
LEMMA SoundFree ==
  ASSUME NEW M, NEW H, Sound(M, H), NEW s \in Session, NEW h, h \in H[s],
         NEW G, Lost(H, G, s, h)
  PROVE  Sound(Free(M, s), G)
<1>1. /\ IsFiniteSet(G[s]) /\ Cardinality(G[s]) = Cardinality(H[s]) - 1
  <2>1. G[s] = H[s] \ {h} /\ IsFiniteSet(H[s])
    BY DEF Sound, Lost
  <2> QED BY <2>1, FS_RemoveElement
<1>2. M[s].refs \in Nat /\ M[s] \in Sessions /\ M[s].refs = Cardinality(H[s]) /\ M[s].refs # 0
      /\ M[s].live
  BY SoundLive DEF Sound, Sessions
<1>3. Free(M, s) = [M EXCEPT ![s] = IF M[s].refs = 1 THEN Blank
                                    ELSE [M[s] EXCEPT !.refs = M[s].refs - 1]]
  <2>1. s # Null
    BY Pointers
  <2>2. M \in [Session -> Sessions]
    BY DEF Sound
  <2> QED BY <2>1, <2>2 DEF Free
<1>4. Free(M, s) \in [Session -> Sessions]
  BY <1>2, <1>3, BlankFacts DEF Sound, Sessions
<1>5. ASSUME NEW x \in Session
      PROVE /\ ~Free(M,s)[x].live => Free(M,s)[x] = Blank
            /\ Free(M,s)[x].live => Free(M,s)[x].id \in Id
            /\ IsFiniteSet(G[x])
            /\ Free(M,s)[x].refs = Cardinality(G[x])
            /\ Free(M,s)[x].live <=> Free(M,s)[x].refs # 0
  <2>1. CASE x = s /\ M[s].refs = 1
    BY <2>1, <1>1, <1>2, <1>3, BlankFacts DEF Sound, Sessions
  <2>2. CASE x = s /\ M[s].refs # 1
    BY <2>2, <1>1, <1>2, <1>3 DEF Sound, Sessions
  <2>3. CASE x # s
    BY <2>3, <1>3 DEF Sound, Lost
  <2> QED BY <2>1, <2>2, <2>3
<1> QED BY <1>4, <1>5 DEF Sound

LEMMA FreeNull == \A M : Free(M, Null) = M
BY DEF Free

(* A holder hands its reference on.                                        *)
LEMMA SoundSwap ==
  ASSUME NEW M, NEW H, Sound(M, H), NEW s \in Session, NEW h, h \in H[s], NEW g, g \notin H[s],
         NEW G, Passed(H, G, s, h, g)
  PROVE  Sound(M, G)
<1>1. IsFiniteSet(H[s] \ {h}) /\ Cardinality(H[s] \ {h}) = Cardinality(H[s]) - 1
  <2>1. IsFiniteSet(H[s])
    BY DEF Sound
  <2> QED BY <2>1, FS_RemoveElement
<1>2. IsFiniteSet(G[s]) /\ Cardinality(G[s]) = Cardinality(H[s] \ {h}) + 1
  <2>1. G[s] = (H[s] \ {h}) \cup {g} /\ g \notin H[s] \ {h}
    BY DEF Passed
  <2> QED BY <1>1, <2>1, FS_AddElement
<1>3. Cardinality(H[s]) \in Nat
  BY DEF Sound, Sessions
<1>4. \A x \in Session : IsFiniteSet(G[x]) /\ Cardinality(G[x]) = Cardinality(H[x])
  <2>1. IsFiniteSet(G[s]) /\ Cardinality(G[s]) = Cardinality(H[s])
    BY <1>1, <1>2, <1>3
  <2>2. \A x \in Session \ {s} : IsFiniteSet(G[x]) /\ G[x] = H[x]
    BY DEF Sound, Passed
  <2> QED BY <2>1, <2>2
<1> QED BY <1>4 DEF Sound

(* The list, and whether a session may be resumed, do not count.           *)
LEMMA SoundFields ==
  ASSUME NEW M, NEW H, Sound(M, H), NEW N \in [Session -> Sessions],
         \A x \in Session : /\ N[x].live = M[x].live /\ N[x].refs = M[x].refs
                            /\ M[x].live => N[x].id \in Id
                            /\ ~M[x].live => N[x] = M[x]
  PROVE  Sound(N, H)
BY DEF Sound

LEMMA SoundSame ==
  ASSUME NEW M, NEW H, Sound(M, H), NEW G, \A x \in Session : G[x] = H[x]
  PROVE  Sound(M, G)
BY DEF Sound

(* A new session has one holder.                                           *)
Newborn(i) == [Blank EXCEPT !.live = TRUE, !.refs = 1, !.id = i, !.time = now]
Added(M, s, i) == M = [mem EXCEPT ![s] = Newborn(i)]

LEMMA NewbornFacts ==
  ASSUME NEW i \in Id, now \in Nat
  PROVE  /\ Newborn(i) \in Sessions
         /\ Newborn(i).live = TRUE /\ Newborn(i).refs = 1 /\ Newborn(i).id = i
         /\ Newborn(i).dead = FALSE /\ Newborn(i).prev = Null /\ Newborn(i).next = Null
<1>1. /\ Newborn(i).live = TRUE /\ Newborn(i).refs = 1 /\ Newborn(i).id = i
      /\ Newborn(i).dead = FALSE /\ Newborn(i).prev = Null /\ Newborn(i).next = Null
  BY DEF Newborn, Blank
<1>2. Newborn(i) \in Sessions
  BY DEF Newborn, Blank, Sessions
<1> QED BY <1>1, <1>2

LEMMA NewFacts ==
  ASSUME NEW H, Sound(mem, H), NEW i \in Id, NEW M \in New(mem, i), NEW s \in NewAddress(M)
  PROVE  s \in Session /\ H[s] = {} /\ ~mem[s].live /\ Added(M, s, i)
<1>1. PICK a \in Session : ~mem[a].live /\ M = [mem EXCEPT ![a] = Newborn(i)]
  BY DEF New, Newborn
<1>2. s \in Session /\ M[s].live /\ ~mem[s].live
  BY DEF NewAddress
<1>3. a = s
  BY <1>1, <1>2
<1>4. H[s] = {}
  BY <1>2, SoundLive
<1> QED BY <1>1, <1>2, <1>3, <1>4 DEF Added

LEMMA SoundNew ==
  ASSUME NEW H, Sound(mem, H), now \in Nat, NEW i \in Id, NEW M \in New(mem, i),
         NEW s \in NewAddress(M), NEW h, NEW G, OnlyHolder(H, G, s, h)
  PROVE  Sound(M, G)
<1>1. s \in Session /\ H[s] = {} /\ ~mem[s].live /\ M = [mem EXCEPT ![s] = Newborn(i)]
  BY NewFacts DEF Added
<1>2. mem \in [Session -> Sessions]
  BY DEF Sound
<1>3. M[s] = Newborn(i)
  BY <1>1, <1>2
<1>4. M \in [Session -> Sessions] /\ \A x \in Session : x # s => M[x] = mem[x]
  BY <1>1, <1>2, NewbornFacts
<1>5. IsFiniteSet({h}) /\ Cardinality({h}) = 1
  BY FS_Singleton
<1>6. ASSUME NEW x \in Session
      PROVE /\ ~M[x].live => M[x] = Blank
            /\ M[x].live => M[x].id \in Id
            /\ IsFiniteSet(G[x])
            /\ M[x].refs = Cardinality(G[x])
            /\ M[x].live <=> M[x].refs # 0
  <2>1. CASE x = s
    <3>1. G[x] = {h}
      BY <2>1 DEF OnlyHolder
    <3>2. Newborn(i).live = TRUE /\ Newborn(i).refs = 1 /\ Newborn(i).id = i
      BY NewbornFacts
    <3> QED BY <2>1, <1>3, <1>5, <3>1, <3>2
  <2>2. CASE x # s
    BY <2>2, <1>4 DEF Sound, OnlyHolder
  <2> QED BY <2>1, <2>2
<1> QED BY <1>4, <1>6 DEF Sound

-----------------------------------------------------------------------------
(* Induction over sets of natural numbers.                                  *)
LEMMA LeastElement ==
  ASSUME NEW T \in SUBSET Nat, T # {}
  PROVE  \E x \in T : \A y \in T : x <= y
<1> DEFINE R == {p \in Nat \X Nat : p[1] < p[2]}
<1>1. R = OpToRel(<, Nat)
  BY DEF OpToRel
<1>2. IsWellFoundedOn(R, Nat)
  BY <1>1, NatLessThanWellFounded
<1> HIDE DEF R
<1>3. PICK x \in T : \A y \in T : ~(<<y, x>> \in R)
  BY <1>2, WFMin
<1>4. ASSUME NEW y \in T, ~(x <= y) PROVE FALSE
  <2>1. x \in Nat /\ y \in Nat /\ y < x
    BY <1>4
  <2>2. <<y, x>> \in R
    BY <2>1 DEF R
  <2> QED
    BY <2>2, <1>3
<1> QED
  BY <1>4

LEMMA SetInduction ==
  ASSUME NEW S \in SUBSET Nat, 0 \in S, \A n \in S : n + 1 \in S
  PROVE  S = Nat
<1> SUFFICES ASSUME Nat \ S # {} PROVE FALSE
  OBVIOUS
<1>1. PICK x \in Nat \ S : \A y \in Nat \ S : x <= y
  BY LeastElement
<1>2. x # 0 /\ x - 1 \in Nat
  BY <1>1
<1>3. x - 1 \in S
  BY <1>1, <1>2
<1> QED
  BY <1>1, <1>3

-----------------------------------------------------------------------------
(* The walk along a list finds the list.                                    *)

Walks(f, M, C) ==
  f = [n \in 0..Cardinality(Session) |-> IF n = 0 THEN <<C.head>> ELSE Onward(M, f[n - 1])]

LEMMA WalkUnfolds ==
  ASSUME NEW M, NEW C, NEW g, Walks(g, M, C), \A f : Walks(f, M, C) => f = g
  PROVE  Walk(M, C) = g[Cardinality(Session)]
<1> DEFINE w == CHOOSE f : f = [n \in 0..Cardinality(Session) |->
                                  IF n = 0 THEN <<C.head>> ELSE Onward(M, f[n - 1])]
<1>1. Walk(M, C) = w[Cardinality(Session)]
  BY DEF Walk
<1>2. \E f : f = [n \in 0..Cardinality(Session) |->
                    IF n = 0 THEN <<C.head>> ELSE Onward(M, f[n - 1])]
  BY DEF Walks
<1>3. w = [n \in 0..Cardinality(Session) |-> IF n = 0 THEN <<C.head>> ELSE Onward(M, w[n - 1])]
  BY <1>2, Zenon
<1>4. w = g
  BY <1>3 DEF Walks
<1> QED BY <1>1, <1>4

LEMMA ListFits ==
  ASSUME NEW q, NEW M, NEW C, IsList(q, M, C)
  PROVE  Len(q) <= Cardinality(Session) /\ Cardinality(Session) \in Nat /\ Len(q) \in Nat
<1>1. IsFiniteSet(Session)
  BY SizesAssumption DEF SizesAssumption
<1>2. Len(q) \in Nat /\ q \in [1..Len(q) -> Session]
  BY LenProperties DEF IsList
<1>3. \A i, j \in 1..Len(q) : q[i] = q[j] => i = j
  BY DEF IsList
<1>4. q \in Injection(1..Len(q), Session)
  BY <1>2, <1>3 DEF Injection, IsInjective
<1>5. IsFiniteSet(1..Len(q)) /\ Cardinality(1..Len(q)) = Len(q)
  <2>1. 1 \in Int /\ Len(q) \in Int
    BY <1>2
  <2>2. IsFiniteSet(1..Len(q)) /\ Cardinality(1..Len(q)) = IF 1 > Len(q) THEN 0 ELSE Len(q) - 1 + 1
    BY <2>1, FS_Interval
  <2> QED BY <2>2, <1>2
<1>6. Cardinality(1..Len(q)) <= Cardinality(Session)
  BY <1>1, <1>4, FS_Injection
<1>7. Cardinality(Session) \in Nat
  BY <1>1, FS_CardinalityType
<1> QED BY <1>2, <1>5, <1>6, <1>7

LEMMA ListIsWalked ==
  ASSUME NEW q, NEW M, NEW C, IsList(q, M, C)
  PROVE  ListOf(M, C) = q
<1> DEFINE L == Len(q)
           N == Cardinality(Session)
           End == IF L = 0 THEN Null ELSE TailPtr
           S == Session \cup {Null, TailPtr}
           all == Append(q, End)
           Size(n) == IF n <= L THEN n + 1 ELSE L + 1
           g == [n \in 0..N |-> SubSeq(all, 1, Size(n))]
<1>1. L \in Nat /\ N \in Nat /\ L <= N
  BY ListFits
<1>2. q \in Seq(Session) /\ q \in Seq(S)
  BY DEF IsList
<1>3. all \in Seq(S) /\ Len(all) = L + 1 /\ all[L + 1] = End /\ \A i \in 1..L : all[i] = q[i]
  <2>1. End \in S
    OBVIOUS
  <2> QED BY <1>2, <2>1, AppendProperties
<1>4. \A i \in 1..L : all[i] \in Session /\ M[all[i]].next = all[i + 1]
  <2> SUFFICES ASSUME NEW i \in 1..L PROVE all[i] \in Session /\ M[all[i]].next = all[i + 1]
    OBVIOUS
  <2>1. all[i] = q[i] /\ q[i] \in Session
    BY <1>1, <1>2, <1>3, ElementOfSeq
  <2>2. M[q[i]].next = IF i = L THEN TailPtr ELSE q[i + 1]
    BY DEF IsList
  <2>3. all[i + 1] = IF i = L THEN TailPtr ELSE q[i + 1]
    BY <1>1, <1>3
  <2> QED BY <2>1, <2>2, <2>3
<1>5. all[1] = C.head /\ all[L + 1] \notin Session
  <2>1. C.head = IF L = 0 THEN Null ELSE q[1]
    BY DEF IsList
  <2> QED BY <2>1, <1>1, <1>3, Pointers
<1> HIDE DEF all, End
<1>6. ASSUME NEW n \in 0..N
      PROVE  /\ SubSeq(all, 1, Size(n)) \in Seq(S) /\ Len(SubSeq(all, 1, Size(n))) = Size(n)
             /\ \A i \in 1..Size(n) : SubSeq(all, 1, Size(n))[i] = all[i]
             /\ Size(n) \in 1..(L + 1)
  <2>1. Size(n) \in 1..(L + 1)
    BY <1>1
  <2>2. \A i \in 1..Size(n) : all[i] \in S
    BY <2>1, <1>1, <1>3, ElementOfSeq
  <2>3. 1 \in Int /\ Size(n) \in Int /\ 1 <= Size(n)
    BY <2>1, <1>1
  <2> HIDE DEF Size, S
  <2>4. /\ SubSeq(all, 1, Size(n)) \in Seq(S)
        /\ Len(SubSeq(all, 1, Size(n))) = IF 1 <= Size(n) THEN Size(n) - 1 + 1 ELSE 0
        /\ \A i \in 1..(Size(n) - 1 + 1) : SubSeq(all, 1, Size(n))[i] = all[1 + i - 1]
    BY <2>2, <2>3, SubSeqProperties
  <2>5. Size(n) - 1 + 1 = Size(n) /\ \A i \in 1..Size(n) : 1 + i - 1 = i
    BY <2>3
  <2> QED BY <2>1, <2>3, <2>4, <2>5
<1>7. SubSeq(all, 1, Size(0)) = <<C.head>>
  <2>1. 0 \in 0..N /\ Size(0) = 1
    BY <1>1
  <2>2. SubSeq(all, 1, 1) \in Seq(S) /\ Len(SubSeq(all, 1, 1)) = 1 /\ SubSeq(all, 1, 1)[1] = C.head
    BY <2>1, <1>6, <1>5
  <2>3. C.head \in S
    BY <1>5, <1>3, <1>1, ElementOfSeq
  <2>4. <<C.head>> \in Seq(S) /\ Len(<<C.head>>) = 1 /\ <<C.head>>[1] = C.head
    BY <2>3
  <2>5. \A i \in 1..1 : SubSeq(all, 1, 1)[i] = <<C.head>>[i]
    BY <2>2, <2>4
  <2>6. SubSeq(all, 1, 1) = <<C.head>>
    BY <2>2, <2>4, <2>5, SeqEqual
  <2> QED BY <2>1, <2>6
<1>8. ASSUME NEW n \in 0..N, n # 0
      PROVE  SubSeq(all, 1, Size(n)) = Onward(M, SubSeq(all, 1, Size(n - 1)))
  <2> DEFINE w == SubSeq(all, 1, Size(n - 1))
             v == SubSeq(all, 1, Size(n))
  <2>1. n - 1 \in 0..N
    BY <1>8, <1>1
  <2>2. w \in Seq(S) /\ Len(w) = Size(n - 1) /\ w[Len(w)] = all[Size(n - 1)] /\ Size(n - 1) \in 1..(L + 1)
        /\ \A i \in 1..Size(n - 1) : w[i] = all[i]
    BY <2>1, <1>6
  <2>3. v \in Seq(S) /\ Len(v) = Size(n) /\ \A i \in 1..Size(n) : v[i] = all[i]
    BY <1>6
  <2>4. CASE n <= L
    <3>1. Size(n - 1) = n /\ Size(n) = n + 1 /\ n \in 1..L
      BY <2>4, <1>8, <1>1
    <3>2. all[n] \in Session /\ M[all[n]].next = all[n + 1] /\ all[n + 1] \in S
      <4>1. n + 1 \in 1..Len(all)
        BY <3>1, <1>3, <1>1
      <4> QED BY <3>1, <4>1, <1>4, <1>3, ElementOfSeq
    <3>3. Onward(M, w) = Append(w, all[n + 1])
      BY <3>1, <3>2, <2>2 DEF Onward
    <3> HIDE DEF w, v, Size, S
    <3>4. Append(w, all[n + 1]) \in Seq(S) /\ Len(Append(w, all[n + 1])) = n + 1
          /\ (\A i \in 1..n : Append(w, all[n + 1])[i] = w[i]) /\ Append(w, all[n + 1])[n + 1] = all[n + 1]
      BY <3>1, <3>2, <2>2, AppendProperties
    <3>5. \A i \in 1..(n + 1) : v[i] = Append(w, all[n + 1])[i]
      BY <3>1, <3>4, <2>2, <2>3
    <3>6. v = Append(w, all[n + 1])
      BY <3>1, <3>4, <3>5, <2>3, SeqEqual
    <3> QED BY <3>3, <3>6 DEF w, v
  <2>5. CASE n > L
    <3>1. Size(n - 1) = L + 1 /\ Size(n) = L + 1
      BY <2>5, <1>8, <1>1
    <3>2. Onward(M, w) = w
      BY <3>1, <2>2, <1>5 DEF Onward
    <3> QED BY <3>1, <3>2
  <2> QED BY <2>4, <2>5, <1>1
<1>9. Walks(g, M, C)
  <2>1. \A n \in 0..N : g[n] = IF n = 0 THEN <<C.head>> ELSE Onward(M, g[n - 1])
    <3> SUFFICES ASSUME NEW n \in 0..N
                 PROVE  g[n] = IF n = 0 THEN <<C.head>> ELSE Onward(M, g[n - 1])
      OBVIOUS
    <3>1. g[n] = SubSeq(all, 1, Size(n))
      OBVIOUS
    <3>2. CASE n = 0
      BY <3>1, <3>2, <1>7
    <3>3. CASE n # 0
      <4>1. n - 1 \in 0..N
        BY <3>3, <1>1
      <4>2. g[n - 1] = SubSeq(all, 1, Size(n - 1))
        BY <4>1
      <4> HIDE DEF g, Size
      <4> QED BY <3>1, <3>3, <4>2, <1>8
    <3> QED BY <3>2, <3>3
  <2>2. g = [n \in 0..N |-> g[n]]
    OBVIOUS
  <2> HIDE DEF g
  <2> QED BY <2>1, <2>2 DEF Walks
<1>10. ASSUME NEW f, Walks(f, M, C) PROVE f = g
  <2> DEFINE I == {n \in Nat : n \in 0..N => f[n] = g[n]}
  <2>1. f = [n \in 0..N |-> IF n = 0 THEN <<C.head>> ELSE Onward(M, f[n - 1])]
    BY <1>10 DEF Walks
  <2>2. g = [n \in 0..N |-> IF n = 0 THEN <<C.head>> ELSE Onward(M, g[n - 1])]
    BY <1>9 DEF Walks
  <2> HIDE DEF g
  <2>3. 0 \in I
    BY <2>1, <2>2
  <2>4. ASSUME NEW n \in I PROVE n + 1 \in I
    <3> SUFFICES ASSUME n + 1 \in 0..N PROVE f[n + 1] = g[n + 1]
      OBVIOUS
    <3>1. n \in 0..N /\ f[n] = g[n] /\ (n + 1) - 1 = n /\ n + 1 # 0
      BY <1>1
    <3>2. f[n + 1] = Onward(M, f[n]) /\ g[n + 1] = Onward(M, g[n])
      BY <3>1, <2>1, <2>2
    <3> QED BY <3>1, <3>2
  <2>5. I = Nat
    <3> HIDE DEF I
    <3>1. I \in SUBSET Nat
      BY DEF I
    <3> QED BY <3>1, <2>3, <2>4, SetInduction
  <2>6. \A n \in 0..N : f[n] = g[n]
    BY <2>5, <1>1
  <2> QED BY <2>1, <2>2, <2>6
<1>11. Walk(M, C) = all
  <2>1. g[N] = SubSeq(all, 1, L + 1)
    BY <1>1
  <2>2. SubSeq(all, 1, L + 1) = all
    BY <1>3, SubSeqFull
  <2>3. Walk(M, C) = g[N]
    <3> HIDE DEF g, N
    <3> QED BY <1>9, <1>10, WalkUnfolds DEF N
  <2> QED BY <2>1, <2>2, <2>3
<1>12. SubSeq(all, 1, L) = q
  <2>1. \A i \in 1..L : all[i] \in Session
    BY <1>4
  <2>2. SubSeq(all, 1, L) \in Seq(Session) /\ Len(SubSeq(all, 1, L)) = (IF 1 <= L THEN L - 1 + 1 ELSE 0)
        /\ \A i \in 1..(L - 1 + 1) : SubSeq(all, 1, L)[i] = all[1 + i - 1]
    <3> HIDE DEF L
    <3>1. 1 \in Int /\ L \in Int
      BY <1>1
    <3> QED BY <2>1, <3>1, SubSeqProperties
  <2>3. Len(SubSeq(all, 1, L)) = L /\ \A i \in 1..L : SubSeq(all, 1, L)[i] = q[i]
    <3>1. L - 1 + 1 = L /\ \A i \in 1..L : 1 + i - 1 = i
      BY <1>1
    <3> QED BY <2>2, <3>1, <1>1, <1>3
  <2> QED BY <2>2, <2>3, <1>2, SeqEqual
<1> QED
  <2>1. (L + 1) - 1 = L
    BY <1>1
  <2> QED BY <1>3, <1>11, <1>12, <2>1 DEF ListOf

-----------------------------------------------------------------------------
(* Removing from the list and adding to it.                                 *)

Cut(q, n) == [i \in 1..(Len(q) - 1) |-> IF i < n THEN q[i] ELSE q[i + 1]]
Push(s, q) == [i \in 1..(Len(q) + 1) |-> IF i = 1 THEN s ELSE q[i - 1]]

(* Only the links of sessions differ.                                       *)
Relinked(M, N) ==
  /\ N \in [Session -> Sessions]
  /\ \A x \in Session : /\ N[x].live = M[x].live /\ N[x].refs = M[x].refs /\ N[x].id = M[x].id
                        /\ N[x].time = M[x].time /\ N[x].dead = M[x].dead

LEMMA CutFacts ==
  ASSUME NEW q \in Seq(Session), NEW n \in 1..Len(q)
  PROVE  /\ Cut(q, n) \in Seq(Session) /\ Len(Cut(q, n)) = Len(q) - 1
         /\ \A i \in 1..(Len(q) - 1) : Cut(q, n)[i] = IF i < n THEN q[i] ELSE q[i + 1]
<1>1. Len(q) \in Nat /\ Len(q) - 1 \in Nat /\ n \in Nat
  BY LenProperties
<1>2. \A i \in 1..(Len(q) - 1) : (IF i < n THEN q[i] ELSE q[i + 1]) \in Session
  <2> SUFFICES ASSUME NEW i \in 1..(Len(q) - 1) PROVE q[i] \in Session /\ q[i + 1] \in Session
    OBVIOUS
  <2>1. i \in 1..Len(q) /\ i + 1 \in 1..Len(q)
    BY <1>1
  <2> QED BY <2>1, ElementOfSeq
<1>3. Cut(q, n) \in [1..(Len(q) - 1) -> Session]
  BY <1>2 DEF Cut
<1> QED BY <1>1, <1>3 DEF Cut

LEMMA PushFacts ==
  ASSUME NEW q \in Seq(Session), NEW s \in Session
  PROVE  /\ Push(s, q) \in Seq(Session) /\ Len(Push(s, q)) = Len(q) + 1
         /\ Push(s, q)[1] = s
         /\ \A i \in 1..Len(q) : Push(s, q)[i + 1] = q[i]
         /\ \A i \in 1..(Len(q) + 1) : Push(s, q)[i] = IF i = 1 THEN s ELSE q[i - 1]
<1>1. Len(q) \in Nat /\ Len(q) + 1 \in Nat
  BY LenProperties
<1>2. \A i \in 1..(Len(q) + 1) : (IF i = 1 THEN s ELSE q[i - 1]) \in Session
  <2> SUFFICES ASSUME NEW i \in 1..(Len(q) + 1), i # 1 PROVE q[i - 1] \in Session
    OBVIOUS
  <2>1. i - 1 \in 1..Len(q)
    BY <1>1
  <2> QED BY <2>1, ElementOfSeq
<1>3. Push(s, q) \in [1..(Len(q) + 1) -> Session]
  BY <1>2 DEF Push
<1>4. Push(s, q) \in Seq(Session) /\ Len(Push(s, q)) = Len(q) + 1
  BY <1>1, <1>3
<1> QED BY <1>1, <1>4 DEF Push

LEMMA ListElements ==
  ASSUME NEW q, NEW M, NEW C, IsList(q, M, C), M \in [Session -> Sessions]
  PROVE  /\ Len(q) \in Nat
         /\ \A i \in 1..Len(q) : q[i] \in Session
         /\ Elements(q) \subseteq Session
         /\ \A s \in Session : M[s].prev # Null <=> s \in Elements(q)
         /\ \A s \in Session : M[s].next # Null <=> s \in Elements(q)
         /\ C.head # Null <=> Len(q) # 0
         /\ C.tail # Null <=> Len(q) # 0
         /\ Len(q) # 0 => C.head \in Elements(q) /\ C.tail \in Elements(q) /\ C.tail = q[Len(q)]
<1>1. q \in Seq(Session) /\ Len(q) \in Nat
  BY LenProperties DEF IsList
<1>2. \A i \in 1..Len(q) : q[i] \in Session
  BY <1>1, ElementOfSeq
<1>3. ASSUME NEW s \in Session
      PROVE (M[s].prev # Null <=> s \in Elements(q)) /\ (M[s].next # Null <=> s \in Elements(q))
  <2>1. CASE s \in Elements(q)
    <3>1. PICK i \in 1..Len(q) : q[i] = s
      BY <2>1 DEF Elements
    <3>2. M[s].prev = (IF i = 1 THEN HeadPtr ELSE q[i - 1]) /\ M[s].next = (IF i = Len(q) THEN TailPtr ELSE q[i + 1])
      BY <3>1 DEF IsList
    <3>3. (i # 1 => q[i - 1] \in Session) /\ (i # Len(q) => q[i + 1] \in Session)
      <4>1. (i # 1 => i - 1 \in 1..Len(q)) /\ (i # Len(q) => i + 1 \in 1..Len(q))
        BY <1>1
      <4> QED BY <4>1, <1>2
    <3> QED BY <2>1, <3>2, <3>3, Pointers
  <2>2. CASE s \notin Elements(q)
    BY <2>2 DEF Elements, IsList
  <2> QED BY <2>1, <2>2
<1>4. C.head = (IF Len(q) = 0 THEN Null ELSE q[1]) /\ C.tail = (IF Len(q) = 0 THEN Null ELSE q[Len(q)])
  BY DEF IsList
<1>5. Len(q) # 0 => 1 \in 1..Len(q) /\ Len(q) \in 1..Len(q)
  BY <1>1
<1>6. Elements(q) \subseteq Session
  BY <1>2 DEF Elements
<1>7. Len(q) # 0 => C.head \in Elements(q) /\ C.tail \in Elements(q) /\ C.tail = q[Len(q)]
  BY <1>4, <1>5 DEF Elements
<1>8. (C.head # Null <=> Len(q) # 0) /\ (C.tail # Null <=> Len(q) # 0)
  BY <1>4, <1>5, <1>2, Pointers
<1> QED BY <1>1, <1>2, <1>3, <1>6, <1>7, <1>8

(* What is not on the list stays as it is.                                  *)
LEMMA RemoveUnlinked ==
  ASSUME NEW q, NEW M \in [Session -> Sessions], NEW C, IsList(q, M, C), NEW s \in Session, s \notin Elements(q)
  PROVE  ListRemove(M, C, s) = [mem |-> M, cache |-> C]
BY ListElements DEF ListRemove

LEMMA RemoveLinked ==
  ASSUME NEW q, NEW M \in [Session -> Sessions], NEW C \in Caches, IsList(q, M, C), NEW n \in 1..Len(q)
  PROVE  LET r == ListRemove(M, C, q[n]) IN
         /\ IsList(Cut(q, n), r.mem, r.cache)
         /\ Relinked(M, r.mem)
         /\ \A x \in Session \ Elements(q) : r.mem[x] = M[x]
         /\ r.cache \in Caches /\ r.cache.table = C.table
         /\ Elements(Cut(q, n)) = Elements(q) \ {q[n]}
<1> DEFINE s == q[n]
           L == Len(q)
           p == M[s].prev
           x == M[s].next
           r == ListRemove(M, C, s)
           c == Cut(q, n)
<1>1. /\ L \in Nat /\ n \in Nat /\ 1 <= n /\ n <= L
      /\ \A i \in 1..L : q[i] \in Session
      /\ \A i, j \in 1..L : q[i] = q[j] => i = j
  BY ListElements DEF IsList
<1>2. /\ s \in Session
      /\ p = (IF n = 1 THEN HeadPtr ELSE q[n - 1])
      /\ x = (IF n = L THEN TailPtr ELSE q[n + 1])
  BY <1>1 DEF IsList
<1>3. /\ n # 1 => n - 1 \in 1..L /\ q[n - 1] \in Session
      /\ n # L => n + 1 \in 1..L /\ q[n + 1] \in Session
  BY <1>1
<1>4. /\ p = HeadPtr <=> n = 1
      /\ x = TailPtr <=> n = L
      /\ p # Null /\ x # Null /\ p # TailPtr /\ x # HeadPtr
  BY <1>2, <1>3, Pointers
<1>5. /\ r.mem = [y \in Session |->
             IF y = s THEN [M[y] EXCEPT !.prev = Null, !.next = Null]
             ELSE IF y = p THEN [M[y] EXCEPT !.next = x]
             ELSE IF y = x THEN [M[y] EXCEPT !.prev = p] ELSE M[y]]
      /\ r.cache = [C EXCEPT
             !.head = IF n # 1 THEN @ ELSE IF n = L THEN Null ELSE x,
             !.tail = IF n # L THEN @ ELSE IF n = 1 THEN Null ELSE p]
  BY <1>4 DEF ListRemove
<1>6. /\ c \in Seq(Session) /\ Len(c) = L - 1
      /\ \A i \in 1..(L - 1) : c[i] = IF i < n THEN q[i] ELSE q[i + 1]
  BY CutFacts DEF IsList
<1>7. C.head = (IF L = 0 THEN Null ELSE q[1]) /\ C.tail = (IF L = 0 THEN Null ELSE q[L])
  BY DEF IsList
<1>8. \A i \in 1..L : /\ M[q[i]].prev = IF i = 1 THEN HeadPtr ELSE q[i - 1]
                      /\ M[q[i]].next = IF i = L THEN TailPtr ELSE q[i + 1]
  BY DEF IsList
<1>9. \A y \in Session \ Elements(q) : M[y].prev = Null /\ M[y].next = Null
  BY DEF IsList, Elements
<1>10. Elements(c) = Elements(q) \ {s}
  <2>1. ASSUME NEW y \in Elements(c) PROVE y \in Elements(q) \ {s}
    <3>1. PICK i \in 1..(L - 1) : y = c[i]
      BY <1>6 DEF Elements
    <3>2. PICK j \in 1..L : y = q[j] /\ j # n
      <4>1. CASE i < n
        BY <4>1, <3>1, <1>6, <1>1
      <4>2. CASE ~(i < n)
        <5>1. i + 1 \in 1..L /\ i + 1 # n
          BY <4>2, <1>1
        <5> QED BY <4>2, <3>1, <5>1, <1>6
      <4> QED BY <4>1, <4>2
    <3> QED BY <3>2, <1>1 DEF Elements
  <2>2. ASSUME NEW y \in Elements(q) \ {s} PROVE y \in Elements(c)
    <3>1. PICK j \in 1..L : y = q[j] /\ j # n
      BY DEF Elements
    <3>2. CASE j < n
      <4>1. j \in 1..(L - 1) /\ c[j] = y
        BY <3>1, <3>2, <1>1, <1>6
      <4> QED BY <4>1, <1>6 DEF Elements
    <3>3. CASE ~(j < n)
      <4>1. j - 1 \in 1..(L - 1) /\ ~(j - 1 < n) /\ (j - 1) + 1 = j
        BY <3>1, <3>3, <1>1
      <4>2. c[j - 1] = y
        BY <4>1, <3>1, <1>6
      <4> QED BY <4>1, <4>2, <1>6 DEF Elements
    <3> QED BY <3>2, <3>3
  <2> QED BY <2>1, <2>2
<1> HIDE DEF c, r, s, L, p, x
<1>11. ASSUME NEW y \in Session
       PROVE  /\ r.mem[y] \in Sessions
              /\ r.mem[y].prev = IF y = s THEN Null ELSE IF y # p /\ y = x THEN p ELSE M[y].prev
              /\ r.mem[y].next = IF y = s THEN Null ELSE IF y = p THEN x ELSE M[y].next
              /\ r.mem[y].live = M[y].live /\ r.mem[y].refs = M[y].refs /\ r.mem[y].id = M[y].id
              /\ r.mem[y].time = M[y].time /\ r.mem[y].dead = M[y].dead
  <2>1. p \in Session \cup {Null, HeadPtr} /\ x \in Session \cup {Null, TailPtr} /\ M[y] \in Sessions
    BY <1>2, <1>3
  <2>2. CASE y = s
    <3>1. r.mem[y] = [M[y] EXCEPT !.prev = Null, !.next = Null]
      BY <2>2, <1>5
    <3> QED BY <2>1, <2>2, <3>1 DEF Sessions
  <2>3. CASE y # s /\ y = p
    <3>1. r.mem[y] = [M[y] EXCEPT !.next = x]
      BY <2>3, <1>5
    <3> QED BY <2>1, <2>3, <3>1 DEF Sessions
  <2>4. CASE y # s /\ y # p /\ y = x
    <3>1. r.mem[y] = [M[y] EXCEPT !.prev = p]
      BY <2>4, <1>5
    <3> QED BY <2>1, <2>4, <3>1 DEF Sessions
  <2>5. CASE y # s /\ y # p /\ y # x
    <3>1. r.mem[y] = M[y]
      BY <2>5, <1>5
    <3> QED BY <2>1, <2>5, <3>1
  <2> QED BY <2>2, <2>3, <2>4, <2>5
<1>12. Relinked(M, r.mem)
  <2>1. r.mem \in [Session -> Sessions]
    BY <1>5, <1>11
  <2> QED BY <1>11, <2>1 DEF Relinked
<1>13. \A y \in Session \ Elements(q) : r.mem[y] = M[y]
  <2>1. s \in Elements(q) /\ (p \in Session => p \in Elements(q)) /\ (x \in Session => x \in Elements(q))
    BY <1>1, <1>2, <1>3, Pointers DEF Elements, s, L
  <2> QED BY <2>1, <1>5
<1>14. r.cache \in Caches /\ r.cache.table = C.table
  BY <1>2, <1>3, <1>5 DEF Caches, SessionOrNull
<1>15. /\ r.cache.head = IF Len(c) = 0 THEN Null ELSE c[1]
       /\ r.cache.tail = IF Len(c) = 0 THEN Null ELSE c[Len(c)]
  <2>1. /\ r.cache.head = IF n # 1 THEN C.head ELSE IF n = L THEN Null ELSE x
        /\ r.cache.tail = IF n # L THEN C.tail ELSE IF n = 1 THEN Null ELSE p
    BY <1>5 DEF Caches
  <2>2. CASE L = 1
    BY <2>1, <2>2, <1>1, <1>6
  <2>3. CASE L # 1
    <3>1. 1 \in 1..(L - 1) /\ L - 1 \in 1..(L - 1) /\ L # 0 /\ (L - 1) + 1 = L /\ 1 + 1 = 2
      BY <2>3, <1>1
    <3>2. c[1] = IF 1 < n THEN q[1] ELSE q[2]
      BY <3>1, <1>6
    <3>3. c[L - 1] = IF L - 1 < n THEN q[L - 1] ELSE q[L]
      BY <3>1, <1>6
    <3>4. (1 < n <=> n # 1) /\ (L - 1 < n <=> n = L)
      BY <1>1
    <3> QED BY <2>1, <2>3, <3>1, <3>2, <3>3, <3>4, <1>1, <1>2, <1>6, <1>7
  <2> QED BY <2>2, <2>3
<1>16. ASSUME NEW i \in 1..Len(c)
       PROVE  /\ r.mem[c[i]].prev = IF i = 1 THEN HeadPtr ELSE c[i - 1]
              /\ r.mem[c[i]].next = IF i = Len(c) THEN TailPtr ELSE c[i + 1]
  <2> DEFINE j == IF i < n THEN i ELSE i + 1
  <2>1. j \in 1..L /\ j # n /\ c[i] = q[j] /\ i \in Nat /\ 1 <= i /\ i <= L - 1
    BY <1>1, <1>6
  <2>2. q[j] \in Session /\ q[j] # s
    BY <2>1, <1>1 DEF s
  <2>3. M[q[j]].prev = (IF j = 1 THEN HeadPtr ELSE q[j - 1])
        /\ M[q[j]].next = (IF j = L THEN TailPtr ELSE q[j + 1])
    BY <2>1, <1>8
  <2>4. q[j] = p <=> j = n - 1
    BY <2>1, <1>1, <1>2, <1>3, Pointers
  <2>5. q[j] = x <=> j = n + 1
    BY <2>1, <1>1, <1>2, <1>3, Pointers
  <2>6. r.mem[q[j]].prev = IF j = n + 1 THEN p ELSE M[q[j]].prev
    BY <1>11, <2>2, <2>4, <2>5, <2>1, <1>1
  <2>7. r.mem[q[j]].next = IF j = n - 1 THEN x ELSE M[q[j]].next
    BY <1>11, <2>2, <2>4, <2>5, <2>1, <1>1
  <2>8. i # 1 => c[i - 1] = (IF i - 1 < n THEN q[i - 1] ELSE q[i]) /\ (i - 1) + 1 = i
    <3>1. i # 1 => i - 1 \in 1..(L - 1) /\ (i - 1) + 1 = i
      BY <2>1, <1>1
    <3> QED BY <3>1, <1>6
  <2>9. i # L - 1 => c[i + 1] = (IF i + 1 < n THEN q[i + 1] ELSE q[i + 2])
    <3>1. i # L - 1 => i + 1 \in 1..(L - 1) /\ (i + 1) + 1 = i + 2
      BY <2>1, <1>1
    <3> QED BY <3>1, <1>6
  <2>10. r.mem[c[i]].prev = IF i = 1 THEN HeadPtr ELSE c[i - 1]
    <3>1. CASE i < n
      BY <3>1, <2>1, <2>3, <2>6, <2>8, <1>1
    <3>2. CASE i = n
      BY <3>2, <2>1, <2>3, <2>6, <2>8, <1>1, <1>2
    <3>3. CASE i > n
      <4>1. j = i + 1 /\ j # n + 1 /\ j # 1 /\ j - 1 = i /\ i # 1 /\ ~(i - 1 < n)
        BY <3>3, <2>1, <1>1
      <4> QED BY <4>1, <2>1, <2>3, <2>6, <2>8
    <3> QED BY <3>1, <3>2, <3>3, <2>1, <1>1
  <2>11. r.mem[c[i]].next = IF i = L - 1 THEN TailPtr ELSE c[i + 1]
    <3>1. CASE i >= n
      <4>1. j = i + 1 /\ j # n - 1 /\ (j = L <=> i = L - 1) /\ j + 1 = i + 2 /\ ~(i + 1 < n)
        BY <3>1, <2>1, <1>1
      <4> QED BY <4>1, <2>1, <2>3, <2>7, <2>9
    <3>2. CASE i = n - 1
      <4>1. j = i /\ j = n - 1 /\ (n = L <=> i = L - 1) /\ i + 2 = n + 1 /\ ~(i + 1 < n)
        BY <3>2, <2>1, <1>1
      <4> QED BY <4>1, <2>1, <2>3, <2>7, <2>9, <1>2
    <3>3. CASE i < n - 1
      <4>1. j = i /\ j # n - 1 /\ j # L /\ i # L - 1 /\ i + 1 < n
        BY <3>3, <2>1, <1>1
      <4> QED BY <4>1, <2>1, <2>3, <2>7, <2>9
    <3> QED BY <3>1, <3>2, <3>3, <2>1, <1>1
  <2> QED BY <2>10, <2>11, <1>6
<1>17. \A y \in Session \ Elements(c) : r.mem[y].prev = Null /\ r.mem[y].next = Null
  <2> SUFFICES ASSUME NEW y \in Session \ Elements(c) PROVE r.mem[y].prev = Null /\ r.mem[y].next = Null
    OBVIOUS
  <2>1. CASE y = s
    BY <2>1, <1>11
  <2>2. CASE y # s
    <3>1. y \in Session \ Elements(q)
      BY <2>2, <1>10
    <3> QED BY <3>1, <1>13, <1>9
  <2> QED BY <2>1, <2>2
<1>18. \A i, j \in 1..Len(c) : c[i] = c[j] => i = j
  <2> SUFFICES ASSUME NEW i \in 1..(L - 1), NEW j \in 1..(L - 1), c[i] = c[j] PROVE i = j
    BY <1>6
  <2>1. /\ c[i] = q[IF i < n THEN i ELSE i + 1] /\ (IF i < n THEN i ELSE i + 1) \in 1..L
        /\ c[j] = q[IF j < n THEN j ELSE j + 1] /\ (IF j < n THEN j ELSE j + 1) \in 1..L
    BY <1>1, <1>6
  <2>2. (IF i < n THEN i ELSE i + 1) = (IF j < n THEN j ELSE j + 1)
    BY <2>1, <1>1
  <2> QED BY <2>2, <1>1
<1>19. IsList(c, r.mem, r.cache)
  <2>1. \A y \in Session : (\A i \in 1..Len(c) : c[i] # y) => r.mem[y].prev = Null /\ r.mem[y].next = Null
    BY <1>17 DEF Elements
  <2> QED BY <1>6, <1>15, <1>16, <1>18, <2>1 DEF IsList
<1> QED BY <1>10, <1>12, <1>13, <1>14, <1>19 DEF c, r, s

LEMMA PushElements ==
  ASSUME NEW q \in Seq(Session), NEW s \in Session
  PROVE  Elements(Push(s, q)) = Elements(q) \cup {s}
<1>1. Len(q) \in Nat
  BY LenProperties
<1>2. /\ Len(Push(s, q)) = Len(q) + 1
      /\ Push(s, q)[1] = s
      /\ \A i \in 1..Len(q) : Push(s, q)[i + 1] = q[i]
      /\ \A i \in 1..(Len(q) + 1) : Push(s, q)[i] = IF i = 1 THEN s ELSE q[i - 1]
  BY PushFacts
<1>3. ASSUME NEW y \in Elements(Push(s, q)) PROVE y \in Elements(q) \cup {s}
  <2>1. PICK i \in 1..(Len(q) + 1) : y = Push(s, q)[i]
    BY <1>2 DEF Elements
  <2>2. CASE i = 1
    BY <2>1, <2>2, <1>2
  <2>3. CASE i # 1
    <3>1. i - 1 \in 1..Len(q) /\ y = q[i - 1]
      BY <2>1, <2>3, <1>1, <1>2
    <3> QED BY <3>1 DEF Elements
  <2> QED BY <2>2, <2>3
<1>4. ASSUME NEW y \in Elements(q) PROVE y \in Elements(Push(s, q))
  <2>1. PICK i \in 1..Len(q) : y = q[i]
    BY DEF Elements
  <2>2. i + 1 \in 1..Len(Push(s, q)) /\ y = Push(s, q)[i + 1]
    BY <2>1, <1>1, <1>2
  <2> QED BY <2>2 DEF Elements
<1>5. s \in Elements(Push(s, q))
  <2>1. 1 \in 1..Len(Push(s, q))
    BY <1>1, <1>2
  <2> QED BY <2>1, <1>2 DEF Elements
<1> QED BY <1>3, <1>4, <1>5

LEMMA AddUnlinked ==
  ASSUME NEW q, NEW M \in [Session -> Sessions], NEW C \in Caches, IsList(q, M, C),
         NEW s \in Session, s \notin Elements(q)
  PROVE  LET r == ListAdd(M, C, s) IN
         /\ IsList(Push(s, q), r.mem, r.cache)
         /\ Relinked(M, r.mem)
         /\ \A x \in Session \ (Elements(q) \cup {s}) : r.mem[x] = M[x]
         /\ r.cache \in Caches /\ r.cache.table = C.table
<1> DEFINE L == Len(q)
           r == ListAdd(M, C, s)
           h == C.head
           c == Push(s, q)
<1>1. /\ L \in Nat /\ q \in Seq(Session)
      /\ \A i \in 1..L : q[i] \in Session
      /\ \A i, j \in 1..L : q[i] = q[j] => i = j
      /\ h = IF L = 0 THEN Null ELSE q[1]
      /\ C.tail = IF L = 0 THEN Null ELSE q[L]
  BY ListElements DEF IsList
<1>2. M[s].prev = Null /\ M[s].next = Null /\ h # s /\ (h = Null <=> L = 0) /\ (L # 0 => h \in Session)
  BY ListElements, Pointers
<1>3. /\ r.mem = [x \in Session |->
            IF x = s THEN [M[x] EXCEPT !.prev = HeadPtr, !.next = IF h = Null THEN TailPtr ELSE h]
            ELSE IF x = h THEN [M[x] EXCEPT !.prev = s] ELSE M[x]]
      /\ r.cache = [C EXCEPT !.head = s, !.tail = IF h = Null THEN s ELSE @]
  BY <1>2 DEF ListAdd
<1>4. /\ c \in Seq(Session) /\ Len(c) = L + 1 /\ c[1] = s
      /\ \A i \in 1..L : c[i + 1] = q[i]
      /\ \A i \in 1..(L + 1) : c[i] = IF i = 1 THEN s ELSE q[i - 1]
  BY <1>1, PushFacts
<1>5. \A i \in 1..L : /\ M[q[i]].prev = IF i = 1 THEN HeadPtr ELSE q[i - 1]
                      /\ M[q[i]].next = IF i = L THEN TailPtr ELSE q[i + 1]
  BY DEF IsList
<1>6. \A y \in Session \ Elements(q) : M[y].prev = Null /\ M[y].next = Null
  BY DEF IsList, Elements
<1>7. Elements(c) = Elements(q) \cup {s}
  BY <1>1, PushElements
<1>8. \A i \in 1..L : q[i] # s /\ q[i] \in Elements(q)
  BY DEF Elements
<1>9. h # Null => h \in Elements(q)
  <2>1. L # 0 => 1 \in 1..L /\ h = q[1]
    BY <1>1
  <2>2. L # 0 => h \in Elements(q)
    BY <2>1 DEF Elements
  <2> QED BY <2>2, <1>2
<1> HIDE DEF c, r, L, h
<1>11. ASSUME NEW y \in Session
       PROVE  /\ r.mem[y] \in Sessions
              /\ r.mem[y].prev = IF y = s THEN HeadPtr ELSE IF y = h THEN s ELSE M[y].prev
              /\ r.mem[y].next = IF y = s THEN (IF L = 0 THEN TailPtr ELSE h) ELSE M[y].next
              /\ r.mem[y].live = M[y].live /\ r.mem[y].refs = M[y].refs /\ r.mem[y].id = M[y].id
              /\ r.mem[y].time = M[y].time /\ r.mem[y].dead = M[y].dead
  <2>1. M[y] \in Sessions
    OBVIOUS
  <2>2. CASE y = s
    <3>1. r.mem[y] = [M[y] EXCEPT !.prev = HeadPtr, !.next = IF L = 0 THEN TailPtr ELSE h]
      BY <2>2, <1>2, <1>3
    <3>2. (IF L = 0 THEN TailPtr ELSE h) \in Session \cup {Null, TailPtr}
      BY <1>2
    <3> QED BY <2>1, <2>2, <3>1, <3>2 DEF Sessions
  <2>3. CASE y # s /\ y = h
    <3>1. r.mem[y] = [M[y] EXCEPT !.prev = s]
      BY <2>3, <1>3
    <3> QED BY <2>1, <2>3, <3>1 DEF Sessions
  <2>4. CASE y # s /\ y # h
    <3>1. r.mem[y] = M[y]
      BY <2>4, <1>3
    <3> QED BY <2>1, <2>4, <3>1
  <2> QED BY <2>2, <2>3, <2>4
<1>12. Relinked(M, r.mem)
  <2>1. r.mem \in [Session -> Sessions]
    BY <1>3, <1>11
  <2> QED BY <1>11, <2>1 DEF Relinked
<1>13. \A y \in Session \ (Elements(q) \cup {s}) : r.mem[y] = M[y]
  BY <1>3, <1>9, Pointers
<1>14. r.cache \in Caches /\ r.cache.table = C.table
  BY <1>3 DEF Caches, SessionOrNull
<1>15. r.cache.head = c[1] /\ r.cache.tail = c[Len(c)]
  <2>1. r.cache.head = s /\ r.cache.tail = IF L = 0 THEN s ELSE C.tail
    BY <1>2, <1>3 DEF Caches
  <2>2. CASE L = 0
    BY <2>1, <2>2, <1>4
  <2>3. CASE L # 0
    <3>1. L + 1 \in 1..(L + 1) /\ L + 1 # 1 /\ (L + 1) - 1 = L
      BY <2>3, <1>1
    <3>2. c[L + 1] = q[L]
      BY <3>1, <1>4
    <3> QED BY <2>1, <2>3, <3>2, <1>1, <1>4
  <2> QED BY <2>2, <2>3
<1>16. ASSUME NEW i \in 1..Len(c)
       PROVE  /\ r.mem[c[i]].prev = IF i = 1 THEN HeadPtr ELSE c[i - 1]
              /\ r.mem[c[i]].next = IF i = Len(c) THEN TailPtr ELSE c[i + 1]
  <2>1. CASE i = 1
    <3>1. c[i] = s /\ r.mem[s].prev = HeadPtr /\ r.mem[s].next = IF L = 0 THEN TailPtr ELSE h
      BY <2>1, <1>4, <1>11
    <3>2. CASE L = 0
      BY <2>1, <3>1, <3>2, <1>4
    <3>3. CASE L # 0
      <4>1. 1 \in 1..L /\ 1 # Len(c) /\ c[1 + 1] = q[1]
        BY <3>3, <1>1, <1>4
      <4> QED BY <2>1, <3>1, <3>3, <4>1, <1>1
    <3> QED BY <3>2, <3>3
  <2>2. CASE i # 1
    <3> DEFINE j == i - 1
    <3>1. j \in 1..L /\ c[i] = q[j] /\ i = j + 1
      BY <2>2, <1>1, <1>4
    <3>2. /\ M[q[j]].prev = IF j = 1 THEN HeadPtr ELSE q[j - 1]
          /\ M[q[j]].next = IF j = L THEN TailPtr ELSE q[j + 1]
      BY <3>1, <1>5
    <3>3. q[j] # s /\ q[j] \in Session /\ (q[j] = h <=> j = 1)
      <4>1. 1 \in 1..L /\ h = q[1]
        BY <3>1, <1>1
      <4> QED BY <3>1, <4>1, <1>1, <1>8
    <3>4. r.mem[q[j]].prev = (IF j = 1 THEN s ELSE M[q[j]].prev) /\ r.mem[q[j]].next = M[q[j]].next
      BY <3>3, <1>11
    <3>5. c[i - 1] = IF j = 1 THEN s ELSE q[j - 1]
      <4>1. j \in 1..(L + 1)
        BY <3>1, <1>1
      <4> QED BY <4>1, <1>4
    <3>6. (j = L <=> i = Len(c)) /\ (j # L => c[i + 1] = q[j + 1])
      <4>1. j # L => j + 1 \in 1..L /\ (j + 1) + 1 = i + 1
        BY <3>1, <1>1
      <4>2. j = L <=> i = Len(c)
        BY <3>1, <1>1, <1>4
      <4> QED BY <4>1, <4>2, <1>4
    <3> QED BY <3>1, <3>2, <3>4, <3>5, <3>6, <2>2
  <2> QED BY <2>1, <2>2
<1>17. \A y \in Session \ Elements(c) : r.mem[y].prev = Null /\ r.mem[y].next = Null
  BY <1>6, <1>7, <1>13
<1>18. \A i, j \in 1..Len(c) : c[i] = c[j] => i = j
  <2> SUFFICES ASSUME NEW i \in 1..(L + 1), NEW j \in 1..(L + 1), c[i] = c[j] PROVE i = j
    BY <1>4
  <2>1. (i # 1 => i - 1 \in 1..L) /\ (j # 1 => j - 1 \in 1..L)
    BY <1>1
  <2>2. c[i] = (IF i = 1 THEN s ELSE q[i - 1]) /\ c[j] = (IF j = 1 THEN s ELSE q[j - 1])
    BY <1>4
  <2>3. (i # 1 /\ j # 1) => i - 1 = j - 1
    BY <2>1, <2>2, <1>1
  <2>4. i = 1 <=> j = 1
    BY <2>1, <2>2, <1>8
  <2> QED BY <2>3, <2>4, <1>1
<1>19. IsList(c, r.mem, r.cache)
  <2>1. \A y \in Session : (\A i \in 1..Len(c) : c[i] # y) => r.mem[y].prev = Null /\ r.mem[y].next = Null
    BY <1>17 DEF Elements
  <2>2. Len(c) # 0
    BY <1>1, <1>4
  <2> QED BY <1>4, <1>15, <1>16, <1>18, <2>1, <2>2 DEF IsList
<1> QED BY <1>12, <1>13, <1>14, <1>19 DEF c, r

(* SSL_SESSION_list_add, of a session that may be on the list already.      *)
LEMMA AddToList ==
  ASSUME NEW q, NEW M \in [Session -> Sessions], NEW C \in Caches, IsList(q, M, C), NEW s \in Session
  PROVE  LET r == ListAdd(M, C, s) IN
         /\ \E l : IsList(l, r.mem, r.cache) /\ Elements(l) = Elements(q) \cup {s}
         /\ Relinked(M, r.mem)
         /\ \A x \in Session \ (Elements(q) \cup {s}) : r.mem[x] = M[x]
         /\ r.cache \in Caches /\ r.cache.table = C.table
<1>1. CASE s \notin Elements(q)
  <2>1. q \in Seq(Session)
    BY DEF IsList
  <2> QED BY <1>1, <2>1, AddUnlinked, PushElements
<1>2. CASE s \in Elements(q)
  <2>1. PICK n \in 1..Len(q) : q[n] = s
    BY <1>2 DEF Elements
  <2> DEFINE r1 == ListRemove(M, C, s)
  <2>2. /\ IsList(Cut(q, n), r1.mem, r1.cache) /\ Relinked(M, r1.mem)
        /\ \A x \in Session \ Elements(q) : r1.mem[x] = M[x]
        /\ r1.cache \in Caches /\ r1.cache.table = C.table
        /\ Elements(Cut(q, n)) = Elements(q) \ {s}
    BY <2>1, RemoveLinked
  <2>3. M[s].prev # Null /\ M[s].next # Null
    BY <1>2, ListElements
  <2>4. r1.mem \in [Session -> Sessions]
    BY <2>2 DEF Relinked
  <2>5. r1.mem[s].prev = Null /\ r1.mem[s].next = Null
    <3> HIDE DEF r1
    <3>1. s \notin Elements(Cut(q, n))
      BY <2>2
    <3> QED BY <3>1, <2>2, <2>4, ListElements
  <2>6. ListAdd(M, C, s) = ListAdd(r1.mem, r1.cache, s)
    <3> DEFINE Put(m, c) ==
          LET h == c.head
          IN [mem |-> [x \in Session |->
                IF x = s THEN [m[x] EXCEPT !.prev = HeadPtr, !.next = IF h = Null THEN TailPtr ELSE h]
                ELSE IF x = h THEN [m[x] EXCEPT !.prev = s] ELSE m[x]],
              cache |-> [c EXCEPT !.head = s, !.tail = IF h = Null THEN s ELSE @]]
    <3>1. ListAdd(M, C, s) = Put(r1.mem, r1.cache)
      BY <2>3 DEF ListAdd
    <3> HIDE DEF r1
    <3>2. ListAdd(r1.mem, r1.cache, s) = Put(r1.mem, r1.cache)
      BY <2>5 DEF ListAdd
    <3> HIDE DEF Put
    <3> QED BY <3>1, <3>2
  <2>7. LET r == ListAdd(r1.mem, r1.cache, s) IN
         /\ IsList(Push(s, Cut(q, n)), r.mem, r.cache)
         /\ Relinked(r1.mem, r.mem)
         /\ \A x \in Session \ (Elements(Cut(q, n)) \cup {s}) : r.mem[x] = r1.mem[x]
         /\ r.cache \in Caches /\ r.cache.table = r1.cache.table
    <3> HIDE DEF r1
    <3>1. s \notin Elements(Cut(q, n))
      BY <2>2
    <3> QED BY <3>1, <2>2, <2>4, AddUnlinked
  <2>8. Elements(Push(s, Cut(q, n))) = Elements(q) \cup {s}
    <3>1. Cut(q, n) \in Seq(Session)
      BY <2>2 DEF IsList
    <3> QED BY <3>1, <2>2, <1>2, PushElements
  <2> HIDE DEF r1
  <2>9. Relinked(M, ListAdd(M, C, s).mem)
    BY <2>2, <2>6, <2>7 DEF Relinked
  <2>10. \A x \in Session \ (Elements(q) \cup {s}) : ListAdd(M, C, s).mem[x] = M[x]
    BY <2>2, <2>6, <2>7
  <2> QED BY <2>2, <2>6, <2>7, <2>8, <2>9, <2>10
<1> QED BY <1>1, <1>2

-----------------------------------------------------------------------------
(* References and the places they are held in.                              *)

LEMMA InHolders ==
  ASSUME NEW T, NEW E, NEW P, NEW s \in Session
  PROVE  /\ HoldersIn(T, E, P)[s] \subseteq Holder
         /\ \A i \in Id : <<"table", i>> \in HoldersIn(T, E, P)[s] <=> <<i, s>> \in T
         /\ <<"ext", Null>> \in HoldersIn(T, E, P)[s] <=> s \in E
         /\ \A p \in Place : p \in HoldersIn(T, E, P)[s] <=> P[p] = s
<1>1. HoldersIn(T, E, P)[s] \subseteq Holder
  BY DEF HoldersIn
<1>2. ASSUME NEW i \in Id PROVE <<"table", i>> \in HoldersIn(T, E, P)[s] <=> <<i, s>> \in T
  <2>1. <<"table", i>> \in Holder /\ <<"table", i>> \notin Place
    BY DEF Holder, Place, Fields
  <2> QED BY <2>1 DEF HoldersIn
<1>3. <<"ext", Null>> \in HoldersIn(T, E, P)[s] <=> s \in E
  <2>1. <<"ext", Null>> \in Holder /\ <<"ext", Null>> \notin Place
    BY DEF Holder, Place, Fields
  <2> QED BY <2>1 DEF HoldersIn
<1>4. ASSUME NEW p \in Place PROVE p \in HoldersIn(T, E, P)[s] <=> P[p] = s
  <2>1. p \in Holder /\ p[1] # "table" /\ p[1] # "ext"
    BY DEF Holder, Place, Fields
  <2> QED BY <2>1 DEF HoldersIn
<1> QED BY <1>1, <1>2, <1>3, <1>4

(* Sets of holders are equal if they have the same table entries, the same *)
(* places and both or neither the application.                             *)
LEMMA HolderCases ==
  \A h \in Holder : (\E i \in Id : h = <<"table", i>>) \/ h = <<"ext", Null>> \/ h \in Place
BY DEF Holder, Place, Fields

LEMMA PlaceIsNot ==
  /\ \A p \in Place : p # <<"ext", Null>> /\ \A i \in Id : p # <<"table", i>>
  /\ \A i \in Id : <<"table", i>> # <<"ext", Null>>
  /\ Place \subseteq Holder
BY DEF Place, Fields, Holder

LEMMA LiveIsHeld ==
  ASSUME NEW M, NEW T, NEW E, NEW P, Counted(M, T, E, P), NEW s \in Session
  PROVE  /\ s \in E => M[s].live
         /\ \A i \in Id : <<i, s>> \in T => M[s].live
         /\ \A p \in Place : P[p] = s => M[s].live
         /\ ~M[s].live => M[s] = Blank
         /\ M[s].live => M[s].id \in Id
<1>1. Sound(M, HoldersIn(T, E, P)) /\ (M[s].live <=> HoldersIn(T, E, P)[s] # {})
  BY SoundLive DEF Counted
<1>2. (~M[s].live => M[s] = Blank) /\ (M[s].live => M[s].id \in Id)
  BY <1>1 DEF Sound
<1>3. s \in E => M[s].live
  BY <1>1, InHolders
<1>4. \A i \in Id : <<i, s>> \in T => M[s].live
  <2> SUFFICES ASSUME NEW i \in Id, <<i, s>> \in T PROVE M[s].live
    OBVIOUS
  <2>1. <<"table", i>> \in HoldersIn(T, E, P)[s]
    BY InHolders
  <2> QED BY <1>1, <2>1
<1>5. \A p \in Place : P[p] = s => M[s].live
  BY <1>1, InHolders
<1> QED BY <1>2, <1>3, <1>4, <1>5

(* Q is P with s at place p.                                               *)
Puts(P, Q, p, s) == Q = [P EXCEPT ![p] = s]

LEMMA PutsFacts ==
  ASSUME NEW P \in [Place -> SessionOrNull], NEW Q, NEW p \in Place, NEW s \in SessionOrNull, Puts(P, Q, p, s)
  PROVE  Q \in [Place -> SessionOrNull] /\ \A q \in Place : Q[q] = IF q = p THEN s ELSE P[q]
BY DEF Puts

(* Holders compared one by one.                                            *)
LEMMA CompareHolders ==
  ASSUME NEW T, NEW E, NEW P, NEW U, NEW F, NEW Q, NEW x \in Session, NEW X \in SUBSET Holder,
         \A i \in Id : <<"table", i>> \in X <=> <<i, x>> \in U,
         <<"ext", Null>> \in X <=> x \in F,
         \A p \in Place : p \in X <=> Q[p] = x
  PROVE  HoldersIn(U, F, Q)[x] = X
<1>1. ASSUME NEW h \in Holder PROVE h \in HoldersIn(U, F, Q)[x] <=> h \in X
  <2>1. CASE \E i \in Id : h = <<"table", i>>
    <3>1. PICK i \in Id : h = <<"table", i>>
      BY <2>1
    <3>2. <<"table", i>> \in HoldersIn(U, F, Q)[x] <=> <<i, x>> \in U
      BY InHolders
    <3>3. <<"table", i>> \in X <=> <<i, x>> \in U
      OBVIOUS
    <3> QED BY <3>1, <3>2, <3>3
  <2>2. CASE h = <<"ext", Null>>
    BY <2>2, InHolders
  <2>3. CASE h \in Place
    BY <2>3, InHolders
  <2> QED BY <2>1, <2>2, <2>3, HolderCases
<1>2. HoldersIn(U, F, Q)[x] \subseteq Holder
  BY InHolders
<1> QED BY <1>1, <1>2

(* Holder h of session s comes, or goes, between <<T, E, P>> and <<U, F, Q>>. *)
Comes(T, E, P, U, F, Q, s, h) ==
  \A x \in Session :
    /\ \A i \in Id : <<i, x>> \in U <=> <<i, x>> \in T \/ (x = s /\ h = <<"table", i>>)
    /\ x \in F <=> x \in E \/ (x = s /\ h = <<"ext", Null>>)
    /\ \A p \in Place : Q[p] = x <=> P[p] = x \/ (x = s /\ h = p)
Goes(T, E, P, U, F, Q, s, h) ==
  \A x \in Session :
    /\ \A i \in Id : <<i, x>> \in U <=> <<i, x>> \in T /\ ~(x = s /\ h = <<"table", i>>)
    /\ x \in F <=> x \in E /\ ~(x = s /\ h = <<"ext", Null>>)
    /\ \A p \in Place : Q[p] = x <=> P[p] = x /\ ~(x = s /\ h = p)

LEMMA ComesGained ==
  ASSUME NEW T, NEW E, NEW P, NEW U, NEW F, NEW Q, NEW s \in Session, NEW h \in Holder,
         Comes(T, E, P, U, F, Q, s, h)
  PROVE  Gained(HoldersIn(T, E, P), HoldersIn(U, F, Q), s, h)
<1> DEFINE H == HoldersIn(T, E, P)
<1>1. ASSUME NEW x \in Session PROVE HoldersIn(U, F, Q)[x] = IF x = s THEN H[x] \cup {h} ELSE H[x]
  <2> DEFINE X == IF x = s THEN H[x] \cup {h} ELSE H[x]
  <2>1. H[x] \subseteq Holder
    BY InHolders
  <2>2. \A i \in Id : <<"table", i>> \in H[x] <=> <<i, x>> \in T
    BY InHolders
  <2>3. <<"ext", Null>> \in H[x] <=> x \in E
    BY InHolders
  <2>4. \A q \in Place : q \in H[x] <=> P[q] = x
    BY InHolders
  <2> HIDE DEF H
  <2>5. X \subseteq Holder
    BY <2>1
  <2>6. \A i \in Id : <<"table", i>> \in X <=> <<i, x>> \in U
    BY <2>2 DEF Comes
  <2>7. <<"ext", Null>> \in X <=> x \in F
    BY <2>3 DEF Comes
  <2>8. \A q \in Place : q \in X <=> Q[q] = x
    BY <2>4 DEF Comes
  <2> HIDE DEF X
  <2>9. HoldersIn(U, F, Q)[x] = X
    BY <2>5, <2>6, <2>7, <2>8, CompareHolders
  <2> QED BY <2>9 DEF X
<1> QED BY <1>1 DEF Gained

LEMMA GoesLost ==
  ASSUME NEW T, NEW E, NEW P, NEW U, NEW F, NEW Q, NEW s \in Session, NEW h \in Holder,
         Goes(T, E, P, U, F, Q, s, h)
  PROVE  Lost(HoldersIn(T, E, P), HoldersIn(U, F, Q), s, h)
<1> DEFINE H == HoldersIn(T, E, P)
<1>1. ASSUME NEW x \in Session PROVE HoldersIn(U, F, Q)[x] = IF x = s THEN H[x] \ {h} ELSE H[x]
  <2> DEFINE X == IF x = s THEN H[x] \ {h} ELSE H[x]
  <2>1. H[x] \subseteq Holder
    BY InHolders
  <2>2. \A i \in Id : <<"table", i>> \in H[x] <=> <<i, x>> \in T
    BY InHolders
  <2>3. <<"ext", Null>> \in H[x] <=> x \in E
    BY InHolders
  <2>4. \A q \in Place : q \in H[x] <=> P[q] = x
    BY InHolders
  <2> HIDE DEF H
  <2>5. X \subseteq Holder
    BY <2>1
  <2>6. \A i \in Id : <<"table", i>> \in X <=> <<i, x>> \in U
    BY <2>2 DEF Goes
  <2>7. <<"ext", Null>> \in X <=> x \in F
    BY <2>3 DEF Goes
  <2>8. \A q \in Place : q \in X <=> Q[q] = x
    BY <2>4 DEF Goes
  <2> HIDE DEF X
  <2>9. HoldersIn(U, F, Q)[x] = X
    BY <2>5, <2>6, <2>7, <2>8, CompareHolders
  <2> QED BY <2>9 DEF X
<1> QED BY <1>1 DEF Lost

LEMMA CountedUpRef ==
  ASSUME NEW M, NEW T, NEW E, NEW P, NEW U, NEW F, NEW Q, Counted(M, T, E, P),
         NEW s \in Session, M[s].live, NEW h \in Holder, h \notin HoldersIn(T, E, P)[s],
         Comes(T, E, P, U, F, Q, s, h)
  PROVE  Counted(UpRef(M, s), U, F, Q)
<1>1. Gained(HoldersIn(T, E, P), HoldersIn(U, F, Q), s, h)
  BY ComesGained
<1> QED BY <1>1, SoundUpRef DEF Counted

LEMMA CountedFree ==
  ASSUME NEW M, NEW T, NEW E, NEW P, NEW U, NEW F, NEW Q, Counted(M, T, E, P),
         NEW s \in Session, NEW h \in Holder, h \in HoldersIn(T, E, P)[s],
         Goes(T, E, P, U, F, Q, s, h)
  PROVE  Counted(Free(M, s), U, F, Q)
<1>1. Lost(HoldersIn(T, E, P), HoldersIn(U, F, Q), s, h)
  BY GoesLost
<1> QED BY <1>1, SoundFree DEF Counted

LEMMA CountedPass ==
  ASSUME NEW M, NEW T, NEW E, NEW P, Counted(M, T, E, P),
         NEW s \in Session, NEW h \in Holder, h \in HoldersIn(T, E, P)[s],
         NEW V, NEW D, NEW R, Goes(T, E, P, V, D, R, s, h),
         NEW g \in Holder, g \notin HoldersIn(T, E, P)[s],
         NEW U, NEW F, NEW Q, Comes(V, D, R, U, F, Q, s, g)
  PROVE  Counted(M, U, F, Q)
<1>1. Lost(HoldersIn(T, E, P), HoldersIn(V, D, R), s, h)
  BY GoesLost
<1>2. Gained(HoldersIn(V, D, R), HoldersIn(U, F, Q), s, g)
  BY ComesGained
<1>3. Passed(HoldersIn(T, E, P), HoldersIn(U, F, Q), s, h, g)
  BY <1>1, <1>2 DEF Lost, Gained, Passed
<1> QED BY <1>3, SoundSwap DEF Counted

(* The steps references are moved in.                                       *)
LEMMA TakePlace ==
  ASSUME NEW M, NEW T, NEW E, NEW P \in [Place -> SessionOrNull], Counted(M, T, E, P),
         NEW p \in Place, P[p] = Null, NEW s \in Session, M[s].live, NEW Q, Puts(P, Q, p, s)
  PROVE  Counted(UpRef(M, s), T, E, Q)
<1>1. s \in SessionOrNull
  BY DEF SessionOrNull
<1>2. \A q \in Place : Q[q] = IF q = p THEN s ELSE P[q]
  BY <1>1, PutsFacts
<1>3. p \in Holder /\ p # <<"ext", Null>> /\ \A i \in Id : p # <<"table", i>>
  BY PlaceIsNot
<1>4. Comes(T, E, P, T, E, Q, s, p)
  BY <1>2, <1>3, Pointers DEF Comes
<1>5. p \notin HoldersIn(T, E, P)[s]
  BY InHolders, Pointers
<1> QED BY <1>3, <1>4, <1>5, CountedUpRef

LEMMA DropPlace ==
  ASSUME NEW M, NEW T, NEW E, NEW P \in [Place -> SessionOrNull], Counted(M, T, E, P),
         NEW p \in Place, NEW Q, Puts(P, Q, p, Null)
  PROVE  Counted(Free(M, P[p]), T, E, Q)
<1>1. Null \in SessionOrNull /\ P[p] \in SessionOrNull
  BY DEF SessionOrNull
<1>2. \A q \in Place : Q[q] = IF q = p THEN Null ELSE P[q]
  BY <1>1, PutsFacts
<1>3. p \in Holder /\ p # <<"ext", Null>> /\ \A i \in Id : p # <<"table", i>>
  BY PlaceIsNot
<1>4. CASE P[p] \in Session
  <2>1. Goes(T, E, P, T, E, Q, P[p], p)
    BY <1>2, <1>3, Pointers DEF Goes
  <2>2. p \in HoldersIn(T, E, P)[P[p]]
    BY <1>4, InHolders
  <2> QED BY <1>3, <1>4, <2>1, <2>2, CountedFree
<1>5. CASE P[p] = Null
  <2>1. Q = P
    BY <1>2, <1>5 DEF Puts
  <2> QED BY <1>5, <2>1, FreeNull
<1> QED BY <1>1, <1>4, <1>5 DEF SessionOrNull

LEMMA PassPlace ==
  ASSUME NEW M, NEW T, NEW E, NEW P \in [Place -> SessionOrNull], Counted(M, T, E, P),
         NEW p \in Place, NEW q \in Place, p # q, P[q] = Null,
         NEW Q, Q = [P EXCEPT ![p] = Null, ![q] = P[p]]
  PROVE  Counted(M, T, E, Q)
<1>1. Null \in SessionOrNull /\ P[p] \in SessionOrNull
  BY DEF SessionOrNull
<1> DEFINE R == [P EXCEPT ![p] = Null]
<1>2. \A x \in Place : R[x] = (IF x = p THEN Null ELSE P[x]) /\ Q[x] = IF x = q THEN P[p] ELSE R[x]
  OBVIOUS
<1>3. /\ p \in Holder /\ p # <<"ext", Null>> /\ \A i \in Id : p # <<"table", i>>
      /\ q \in Holder /\ q # <<"ext", Null>> /\ \A i \in Id : q # <<"table", i>>
  BY PlaceIsNot
<1>4. CASE P[p] \in Session
  <2> HIDE DEF R
  <2>1. Goes(T, E, P, T, E, R, P[p], p)
    BY <1>2, <1>3, Pointers DEF Goes
  <2>2. Comes(T, E, R, T, E, Q, P[p], q)
    BY <1>2, <1>3, Pointers DEF Comes
  <2>3. p \in HoldersIn(T, E, P)[P[p]] /\ q \notin HoldersIn(T, E, P)[P[p]]
    BY <1>4, InHolders, Pointers
  <2> QED BY <1>3, <1>4, <2>1, <2>2, <2>3, CountedPass
<1>5. CASE P[p] = Null
  <2>1. Q = P
    BY <1>5
  <2> QED BY <2>1
<1> QED BY <1>1, <1>4, <1>5 DEF SessionOrNull

LEMMA NewPlace ==
  ASSUME NEW T, NEW E, NEW P \in [Place -> SessionOrNull], Counted(mem, T, E, P), now \in Nat,
         NEW i \in Id, NEW M \in New(mem, i), NEW s \in NewAddress(M),
         NEW p \in Place, P[p] = Null, NEW Q, Puts(P, Q, p, s)
  PROVE  Counted(M, T, E, Q)
<1>1. Sound(mem, HoldersIn(T, E, P)) /\ s \in Session /\ HoldersIn(T, E, P)[s] = {}
  BY NewFacts DEF Counted
<1>2. s \in SessionOrNull
  BY <1>1 DEF SessionOrNull
<1>3. \A q \in Place : Q[q] = IF q = p THEN s ELSE P[q]
  BY <1>2, PutsFacts
<1>4. p \in Holder /\ p # <<"ext", Null>> /\ \A j \in Id : p # <<"table", j>>
  BY PlaceIsNot
<1>5. Comes(T, E, P, T, E, Q, s, p)
  BY <1>1, <1>3, <1>4, Pointers DEF Comes
<1>6. Gained(HoldersIn(T, E, P), HoldersIn(T, E, Q), s, p)
  BY <1>1, <1>4, <1>5, ComesGained
<1>7. OnlyHolder(HoldersIn(T, E, P), HoldersIn(T, E, Q), s, p)
  BY <1>1, <1>6 DEF Gained, OnlyHolder
<1> QED BY <1>1, <1>7, SoundNew DEF Counted

LEMMA TakeExt ==
  ASSUME NEW M, NEW T, NEW E, NEW P, Counted(M, T, E, P),
         NEW s \in Session, M[s].live, s \notin E
  PROVE  Counted(UpRef(M, s), T, E \cup {s}, P)
<1>1. <<"ext", Null>> \in Holder /\ (\A p \in Place : p # <<"ext", Null>>)
      /\ \A i \in Id : <<"table", i>> # <<"ext", Null>>
  <2>1. <<"ext", Null>> \in Holder
    BY DEF Holder
  <2> QED BY <2>1, PlaceIsNot
<1>2. Comes(T, E, P, T, E \cup {s}, P, s, <<"ext", Null>>)
  BY <1>1 DEF Comes
<1>3. <<"ext", Null>> \notin HoldersIn(T, E, P)[s]
  BY InHolders
<1> QED BY <1>1, <1>2, <1>3, CountedUpRef

LEMMA DropExt ==
  ASSUME NEW M, NEW T, NEW E, NEW P, Counted(M, T, E, P), NEW s \in Session, s \in E
  PROVE  Counted(Free(M, s), T, E \ {s}, P)
<1>1. <<"ext", Null>> \in Holder /\ (\A p \in Place : p # <<"ext", Null>>)
      /\ \A i \in Id : <<"table", i>> # <<"ext", Null>>
  <2>1. <<"ext", Null>> \in Holder
    BY DEF Holder
  <2> QED BY <2>1, PlaceIsNot
<1>2. Goes(T, E, P, T, E \ {s}, P, s, <<"ext", Null>>)
  BY <1>1 DEF Goes
<1>3. <<"ext", Null>> \in HoldersIn(T, E, P)[s]
  BY InHolders
<1> QED BY <1>1, <1>2, <1>3, CountedFree

LEMMA EntryHolder ==
  ASSUME NEW i \in Id
  PROVE  /\ <<"table", i>> \in Holder /\ <<"table", i>> # <<"ext", Null>>
         /\ \A p \in Place : p # <<"table", i>>
         /\ \A j \in Id : <<"table", j>> = <<"table", i>> <=> j = i
<1>1. <<"table", i>> \in Holder
  BY DEF Holder
<1>2. \A p \in Place : p # <<"table", i>>
  BY DEF Place, Fields
<1> QED BY <1>1, <1>2

LEMMA EntryGoes ==
  ASSUME NEW T, NEW E, NEW P, NEW i \in Id, NEW s \in Session
  PROVE  Goes(T, E, P, T \ {<<i, s>>}, E, P, s, <<"table", i>>)
<1>1. ASSUME NEW x \in Session, NEW j \in Id
      PROVE <<j, x>> \in T \ {<<i, s>>} <=> <<j, x>> \in T /\ ~(x = s /\ <<"table", i>> = <<"table", j>>)
  OBVIOUS
<1> QED BY <1>1, EntryHolder DEF Goes

LEMMA EntryComes ==
  ASSUME NEW T, NEW E, NEW P, NEW i \in Id, NEW s \in Session
  PROVE  Comes(T, E, P, T \cup {<<i, s>>}, E, P, s, <<"table", i>>)
<1>1. ASSUME NEW x \in Session, NEW j \in Id
      PROVE <<j, x>> \in T \cup {<<i, s>>} <=> <<j, x>> \in T \/ (x = s /\ <<"table", i>> = <<"table", j>>)
  OBVIOUS
<1> QED BY <1>1, EntryHolder DEF Comes

LEMMA DropEntry ==
  ASSUME NEW M, NEW T, NEW E, NEW P, Counted(M, T, E, P),
         NEW i \in Id, NEW s \in Session, <<i, s>> \in T
  PROVE  Counted(Free(M, s), T \ {<<i, s>>}, E, P)
<1>1. <<"table", i>> \in HoldersIn(T, E, P)[s]
  BY InHolders
<1> QED BY <1>1, EntryHolder, EntryGoes, CountedFree

LEMMA EntryToPlace ==
  ASSUME NEW M, NEW T, NEW E, NEW P \in [Place -> SessionOrNull], Counted(M, T, E, P),
         NEW i \in Id, NEW s \in Session, <<i, s>> \in T,
         NEW p \in Place, P[p] = Null, NEW Q, Puts(P, Q, p, s)
  PROVE  Counted(M, T \ {<<i, s>>}, E, Q)
<1>1. s \in SessionOrNull
  BY DEF SessionOrNull
<1>2. \A q \in Place : Q[q] = IF q = p THEN s ELSE P[q]
  BY <1>1, PutsFacts
<1>3. p \in Holder /\ p # <<"ext", Null>> /\ \A j \in Id : p # <<"table", j>>
  BY PlaceIsNot
<1> DEFINE U == T \ {<<i, s>>}
<1>4. Goes(T, E, P, U, E, P, s, <<"table", i>>)
  BY EntryGoes
<1> HIDE DEF U
<1>5. Comes(U, E, P, U, E, Q, s, p)
  BY <1>2, <1>3, Pointers DEF Comes
<1>6. <<"table", i>> \in HoldersIn(T, E, P)[s] /\ p \notin HoldersIn(T, E, P)[s]
  BY InHolders, Pointers
<1>7. Counted(M, U, E, Q)
  BY <1>3, <1>4, <1>5, <1>6, EntryHolder, CountedPass
<1> QED BY <1>7 DEF U

LEMMA PlaceToEntry ==
  ASSUME NEW M, NEW T, NEW E, NEW P \in [Place -> SessionOrNull], Counted(M, T, E, P),
         NEW i \in Id, NEW s \in Session, <<i, s>> \notin T,
         NEW p \in Place, P[p] = s, NEW Q, Puts(P, Q, p, Null)
  PROVE  Counted(M, T \cup {<<i, s>>}, E, Q)
<1>1. Null \in SessionOrNull
  BY DEF SessionOrNull
<1>2. \A q \in Place : Q[q] = IF q = p THEN Null ELSE P[q]
  BY <1>1, PutsFacts
<1>3. p \in Holder /\ p # <<"ext", Null>> /\ \A j \in Id : p # <<"table", j>>
  BY PlaceIsNot
<1> DEFINE U == T \cup {<<i, s>>}
<1>4. Goes(T, E, P, T, E, Q, s, p)
  BY <1>2, <1>3, Pointers DEF Goes
<1>5. Comes(T, E, Q, U, E, Q, s, <<"table", i>>)
  BY EntryComes
<1> HIDE DEF U
<1>6. p \in HoldersIn(T, E, P)[s] /\ <<"table", i>> \notin HoldersIn(T, E, P)[s]
  BY InHolders
<1>7. Counted(M, U, E, Q)
  BY <1>3, <1>4, <1>5, <1>6, EntryHolder, CountedPass
<1> QED BY <1>7 DEF U

(* The links, the mark of a session that may not be resumed and its ID do  *)
(* not count.                                                              *)
LEMMA CountedFields ==
  ASSUME NEW M, NEW T, NEW E, NEW P, Counted(M, T, E, P), NEW N \in [Session -> Sessions],
         \A x \in Session : /\ N[x].live = M[x].live /\ N[x].refs = M[x].refs
                            /\ M[x].live => N[x].id \in Id
                            /\ ~M[x].live => N[x] = M[x]
  PROVE  Counted(N, T, E, P)
BY SoundFields DEF Counted

LEMMA CountedRelinked ==
  ASSUME NEW M, NEW T, NEW E, NEW P, Counted(M, T, E, P), NEW N, Relinked(M, N),
         \A x \in Session : ~M[x].live => N[x] = M[x]
  PROVE  Counted(N, T, E, P)
<1>1. N \in [Session -> Sessions] /\ \A x \in Session : /\ N[x].live = M[x].live /\ N[x].refs = M[x].refs
                                                       /\ N[x].id = M[x].id
  BY DEF Relinked
<1>2. \A x \in Session : M[x].live => M[x].id \in Id
  BY DEF Counted, Sound
<1> QED BY <1>1, <1>2, CountedFields

-----------------------------------------------------------------------------
(* The places of a connection that moves.                                   *)
LEMMA UseType ==
  ASSUME NEW c \in Conns, NEW f
  PROVE  Use(c, f) \in SessionOrNull
BY DEF Use, Conns, SessionOrNull

LEMMA PlacesType ==
  ASSUME NEW K \in [Thread -> Conns], NEW a \in SessionOrNull
  PROVE  /\ PlacesOf(K, a) \in [Place -> SessionOrNull]
         /\ PlacesOf(K, a)[<<"pocket", Null>>] = a /\ <<"pocket", Null>> \in Place
         /\ \A f \in Fields, t \in Thread : <<f, t>> \in Place /\ PlacesOf(K, a)[<<f, t>>] = Use(K[t], f)
<1>1. ASSUME NEW p \in Place
      PROVE (IF p[1] = "pocket" THEN a ELSE Use(K[p[2]], p[1])) \in SessionOrNull
  <2>1. p[1] # "pocket" => p[2] \in Thread
    BY DEF Place
  <2>2. p[1] # "pocket" => K[p[2]] \in Conns
    BY <2>1
  <2> QED BY <2>2, UseType
<1>2. <<"pocket", Null>> \in Place /\ \A f \in Fields, t \in Thread : <<f, t>> \in Place /\ f # "pocket"
  BY DEF Place, Fields
<1> QED BY <1>1, <1>2 DEF PlacesOf

(* The places where connection t uses a, b and c.                           *)
Moved(P, t, a, b, c) == [P EXCEPT ![<<"sess", t>>] = a, ![<<"ret", t>>] = b, ![<<"more", t>>] = c]

IsMoved(P, Q, t, a, b, c) ==
  /\ Q \in [Place -> SessionOrNull]
  /\ <<"sess", t>> \in Place /\ <<"ret", t>> \in Place /\ <<"more", t>> \in Place
  /\ Q[<<"sess", t>>] = a /\ Q[<<"ret", t>>] = b /\ Q[<<"more", t>>] = c
  /\ \A p \in Place : p # <<"sess", t>> /\ p # <<"ret", t>> /\ p # <<"more", t>> => Q[p] = P[p]

LEMMA MovedFacts ==
  ASSUME NEW P \in [Place -> SessionOrNull], NEW t \in Thread, NEW a \in SessionOrNull,
         NEW b \in SessionOrNull, NEW c \in SessionOrNull
  PROVE  IsMoved(P, Moved(P, t, a, b, c), t, a, b, c)
<1>1. <<"sess", t>> \in Place /\ <<"ret", t>> \in Place /\ <<"more", t>> \in Place
  BY DEF Place, Fields
<1> QED BY <1>1 DEF IsMoved, Moved

LEMMA SamePlaces ==
  ASSUME NEW P \in [Place -> SessionOrNull], NEW Q \in [Place -> SessionOrNull],
         \A p \in Place : P[p] = Q[p]
  PROVE  P = Q
OBVIOUS

LEMMA PlacesMove ==
  ASSUME NEW K \in [Thread -> Conns], NEW a \in SessionOrNull, NEW t \in Thread, NEW c \in Conns
  PROVE  /\ PlacesOf([K EXCEPT ![t] = c], a) = Moved(PlacesOf(K, a), t, Use(c, "sess"), Use(c, "ret"), Use(c, "more"))
         /\ PlacesOf(K, a) = Moved(PlacesOf(K, a), t, Use(K[t], "sess"), Use(K[t], "ret"), Use(K[t], "more"))
<1> DEFINE L == [K EXCEPT ![t] = c]
           P == PlacesOf(K, a)
           Q == Moved(P, t, Use(c, "sess"), Use(c, "ret"), Use(c, "more"))
           R == Moved(P, t, Use(K[t], "sess"), Use(K[t], "ret"), Use(K[t], "more"))
<1>1. L \in [Thread -> Conns] /\ L[t] = c /\ \A u \in Thread : u # t => L[u] = K[u]
  OBVIOUS
<1> HIDE DEF L
<1>2. /\ P \in [Place -> SessionOrNull] /\ P[<<"pocket", Null>>] = a
      /\ \A f \in Fields, u \in Thread : P[<<f, u>>] = Use(K[u], f)
  BY PlacesType
<1>3. /\ PlacesOf(L, a) \in [Place -> SessionOrNull] /\ PlacesOf(L, a)[<<"pocket", Null>>] = a
      /\ \A f \in Fields, u \in Thread : PlacesOf(L, a)[<<f, u>>] = Use(L[u], f)
  BY <1>1, PlacesType
<1>4. K[t] \in Conns
  OBVIOUS
<1>5. /\ Use(c, "sess") \in SessionOrNull /\ Use(c, "ret") \in SessionOrNull /\ Use(c, "more") \in SessionOrNull
      /\ Use(K[t], "sess") \in SessionOrNull /\ Use(K[t], "ret") \in SessionOrNull
      /\ Use(K[t], "more") \in SessionOrNull
  BY <1>4, UseType
<1> HIDE DEF P
<1>6. /\ Q \in [Place -> SessionOrNull]
      /\ Q[<<"sess", t>>] = Use(c, "sess") /\ Q[<<"ret", t>>] = Use(c, "ret") /\ Q[<<"more", t>>] = Use(c, "more")
      /\ \A p \in Place : p # <<"sess", t>> /\ p # <<"ret", t>> /\ p # <<"more", t>> => Q[p] = P[p]
  <2>1. IsMoved(P, Q, t, Use(c, "sess"), Use(c, "ret"), Use(c, "more"))
    BY <1>2, <1>5, MovedFacts
  <2> QED BY <2>1 DEF IsMoved
<1>7. /\ R \in [Place -> SessionOrNull]
      /\ R[<<"sess", t>>] = Use(K[t], "sess") /\ R[<<"ret", t>>] = Use(K[t], "ret")
      /\ R[<<"more", t>>] = Use(K[t], "more")
      /\ \A p \in Place : p # <<"sess", t>> /\ p # <<"ret", t>> /\ p # <<"more", t>> => R[p] = P[p]
  <2>1. IsMoved(P, R, t, Use(K[t], "sess"), Use(K[t], "ret"), Use(K[t], "more"))
    BY <1>2, <1>5, MovedFacts
  <2> QED BY <2>1 DEF IsMoved
<1> HIDE DEF Q, R
<1>8. \A p \in Place : p = <<"pocket", Null>> \/ \E f \in Fields, u \in Thread : p = <<f, u>>
  BY DEF Place
<1>9. ASSUME NEW p \in Place PROVE PlacesOf(L, a)[p] = Q[p] /\ P[p] = R[p]
  <2>1. CASE p = <<"pocket", Null>>
    BY <2>1, <1>2, <1>3, <1>6, <1>7
  <2>2. CASE \E f \in Fields, u \in Thread : p = <<f, u>>
    <3>1. PICK f \in Fields, u \in Thread : p = <<f, u>>
      BY <2>2
    <3>2. P[p] = Use(K[u], f) /\ PlacesOf(L, a)[p] = Use(L[u], f)
      BY <1>2, <1>3, <3>1
    <3>3. CASE u = t
      <4>1. f = "sess" \/ f = "ret" \/ f = "more"
        BY DEF Fields
      <4> QED BY <3>1, <3>2, <3>3, <4>1, <1>1, <1>6, <1>7
    <3>4. CASE u # t
      <4>1. p # <<"sess", t>> /\ p # <<"ret", t>> /\ p # <<"more", t>>
        BY <3>1, <3>4
      <4> QED BY <3>1, <3>2, <3>4, <4>1, <1>1, <1>6, <1>7
    <3> QED BY <3>3, <3>4
  <2> QED BY <2>1, <2>2, <1>8
<1>10. PlacesOf(L, a) = Q /\ P = R
  BY <1>2, <1>3, <1>6, <1>7, <1>9, SamePlaces
<1> QED BY <1>10 DEF L, P, Q, R

(* The references of one connection in the midst of a step: it uses a as   *)
(* its session, b as the one it has looked up and c besides.               *)
Using(M, T, E, P, t, a, b, c) ==
  /\ a \in SessionOrNull /\ b \in SessionOrNull /\ c \in SessionOrNull
  /\ Counted(M, T, E, Moved(P, t, a, b, c))

LEMMA MovedPuts ==
  ASSUME NEW P \in [Place -> SessionOrNull], NEW t \in Thread, NEW a \in SessionOrNull,
         NEW b \in SessionOrNull, NEW c \in SessionOrNull, NEW s \in SessionOrNull
  PROVE  /\ Puts(Moved(P, t, a, b, c), Moved(P, t, s, b, c), <<"sess", t>>, s)
         /\ Puts(Moved(P, t, a, b, c), Moved(P, t, a, s, c), <<"ret", t>>, s)
         /\ Puts(Moved(P, t, a, b, c), Moved(P, t, a, b, s), <<"more", t>>, s)
<1>1. <<"sess", t>> \in Place /\ <<"ret", t>> \in Place /\ <<"more", t>> \in Place
  BY DEF Place, Fields
<1> DEFINE x == <<"sess", t>>
           y == <<"ret", t>>
           z == <<"more", t>>
<1>2. x # y /\ y # z /\ x # z /\ x \in Place /\ y \in Place /\ z \in Place
  BY <1>1
<1> HIDE DEF x, y, z
<1>3. [P EXCEPT ![x] = s, ![y] = b, ![z] = c] = [[P EXCEPT ![x] = a, ![y] = b, ![z] = c] EXCEPT ![x] = s]
  BY <1>2
<1>4. [P EXCEPT ![x] = a, ![y] = s, ![z] = c] = [[P EXCEPT ![x] = a, ![y] = b, ![z] = c] EXCEPT ![y] = s]
  BY <1>2
<1>5. [P EXCEPT ![x] = a, ![y] = b, ![z] = s] = [[P EXCEPT ![x] = a, ![y] = b, ![z] = c] EXCEPT ![z] = s]
  BY <1>2
<1> QED BY <1>3, <1>4, <1>5 DEF Puts, Moved, x, y, z

LEMMA TakeRet ==
  ASSUME NEW M, NEW T, NEW E, NEW P \in [Place -> SessionOrNull], NEW t \in Thread, NEW a, NEW c,
         Using(M, T, E, P, t, a, Null, c), NEW s \in Session, M[s].live
  PROVE  Using(UpRef(M, s), T, E, P, t, a, s, c)
<1> DEFINE Q == Moved(P, t, a, Null, c)
           R == Moved(P, t, a, s, c)
<1>1. a \in SessionOrNull /\ Null \in SessionOrNull /\ c \in SessionOrNull /\ s \in SessionOrNull
      /\ Counted(M, T, E, Q)
  BY DEF Using, SessionOrNull
<1>2. Q \in [Place -> SessionOrNull] /\ <<"ret", t>> \in Place /\ Q[<<"ret", t>>] = Null
  <2>1. IsMoved(P, Q, t, a, Null, c)
    BY <1>1, MovedFacts
  <2> QED BY <2>1 DEF IsMoved
<1>3. Puts(Q, R, <<"ret", t>>, s)
  BY <1>1, MovedPuts
<1> HIDE DEF Q, R
<1>4. Counted(UpRef(M, s), T, E, R)
  BY <1>1, <1>2, <1>3, TakePlace
<1> QED BY <1>1, <1>4 DEF Using, R

LEMMA TakeMore ==
  ASSUME NEW M, NEW T, NEW E, NEW P \in [Place -> SessionOrNull], NEW t \in Thread, NEW a, NEW b,
         Using(M, T, E, P, t, a, b, Null), NEW s \in Session, M[s].live
  PROVE  Using(UpRef(M, s), T, E, P, t, a, b, s)
<1> DEFINE Q == Moved(P, t, a, b, Null)
           R == Moved(P, t, a, b, s)
<1>1. a \in SessionOrNull /\ Null \in SessionOrNull /\ b \in SessionOrNull /\ s \in SessionOrNull
      /\ Counted(M, T, E, Q)
  BY DEF Using, SessionOrNull
<1>2. Q \in [Place -> SessionOrNull] /\ <<"more", t>> \in Place /\ Q[<<"more", t>>] = Null
  <2>1. IsMoved(P, Q, t, a, b, Null)
    BY <1>1, MovedFacts
  <2> QED BY <2>1 DEF IsMoved
<1>3. Puts(Q, R, <<"more", t>>, s)
  BY <1>1, MovedPuts
<1> HIDE DEF Q, R
<1>4. Counted(UpRef(M, s), T, E, R)
  BY <1>1, <1>2, <1>3, TakePlace
<1> QED BY <1>1, <1>4 DEF Using, R

LEMMA DropSess ==
  ASSUME NEW M, NEW T, NEW E, NEW P \in [Place -> SessionOrNull], NEW t \in Thread, NEW a, NEW b, NEW c,
         Using(M, T, E, P, t, a, b, c)
  PROVE  Using(Free(M, a), T, E, P, t, Null, b, c)
<1> DEFINE Q == Moved(P, t, a, b, c)
           R == Moved(P, t, Null, b, c)
<1>1. a \in SessionOrNull /\ Null \in SessionOrNull /\ b \in SessionOrNull /\ c \in SessionOrNull
      /\ Counted(M, T, E, Q)
  BY DEF Using, SessionOrNull
<1>2. Q \in [Place -> SessionOrNull] /\ <<"sess", t>> \in Place /\ Q[<<"sess", t>>] = a
  <2>1. IsMoved(P, Q, t, a, b, c)
    BY <1>1, MovedFacts
  <2> QED BY <2>1 DEF IsMoved
<1>3. Puts(Q, R, <<"sess", t>>, Null)
  BY <1>1, MovedPuts
<1> HIDE DEF Q, R
<1>4. Counted(Free(M, Q[<<"sess", t>>]), T, E, R)
  BY <1>1, <1>2, <1>3, DropPlace
<1> QED BY <1>1, <1>2, <1>4 DEF Using, R

LEMMA DropRet ==
  ASSUME NEW M, NEW T, NEW E, NEW P \in [Place -> SessionOrNull], NEW t \in Thread, NEW a, NEW b, NEW c,
         Using(M, T, E, P, t, a, b, c)
  PROVE  Using(Free(M, b), T, E, P, t, a, Null, c)
<1> DEFINE Q == Moved(P, t, a, b, c)
           R == Moved(P, t, a, Null, c)
<1>1. a \in SessionOrNull /\ Null \in SessionOrNull /\ b \in SessionOrNull /\ c \in SessionOrNull
      /\ Counted(M, T, E, Q)
  BY DEF Using, SessionOrNull
<1>2. Q \in [Place -> SessionOrNull] /\ <<"ret", t>> \in Place /\ Q[<<"ret", t>>] = b
  <2>1. IsMoved(P, Q, t, a, b, c)
    BY <1>1, MovedFacts
  <2> QED BY <2>1 DEF IsMoved
<1>3. Puts(Q, R, <<"ret", t>>, Null)
  BY <1>1, MovedPuts
<1> HIDE DEF Q, R
<1>4. Counted(Free(M, Q[<<"ret", t>>]), T, E, R)
  BY <1>1, <1>2, <1>3, DropPlace
<1> QED BY <1>1, <1>2, <1>4 DEF Using, R

LEMMA DropMore ==
  ASSUME NEW M, NEW T, NEW E, NEW P \in [Place -> SessionOrNull], NEW t \in Thread, NEW a, NEW b, NEW c,
         Using(M, T, E, P, t, a, b, c)
  PROVE  Using(Free(M, c), T, E, P, t, a, b, Null)
<1> DEFINE Q == Moved(P, t, a, b, c)
           R == Moved(P, t, a, b, Null)
<1>1. a \in SessionOrNull /\ Null \in SessionOrNull /\ b \in SessionOrNull /\ c \in SessionOrNull
      /\ Counted(M, T, E, Q)
  BY DEF Using, SessionOrNull
<1>2. Q \in [Place -> SessionOrNull] /\ <<"more", t>> \in Place /\ Q[<<"more", t>>] = c
  <2>1. IsMoved(P, Q, t, a, b, c)
    BY <1>1, MovedFacts
  <2> QED BY <2>1 DEF IsMoved
<1>3. Puts(Q, R, <<"more", t>>, Null)
  BY <1>1, MovedPuts
<1> HIDE DEF Q, R
<1>4. Counted(Free(M, Q[<<"more", t>>]), T, E, R)
  BY <1>1, <1>2, <1>3, DropPlace
<1> QED BY <1>1, <1>2, <1>4 DEF Using, R

LEMMA PassRet ==
  ASSUME NEW M, NEW T, NEW E, NEW P \in [Place -> SessionOrNull], NEW t \in Thread, NEW b, NEW c,
         Using(M, T, E, P, t, Null, b, c)
  PROVE  Using(M, T, E, P, t, b, Null, c)
<1> DEFINE Q == Moved(P, t, Null, b, c)
           R == Moved(P, t, b, Null, c)
<1>1. Null \in SessionOrNull /\ b \in SessionOrNull /\ c \in SessionOrNull
      /\ Counted(M, T, E, Q)
  BY DEF Using, SessionOrNull
<1>2. /\ Q \in [Place -> SessionOrNull] /\ <<"ret", t>> \in Place /\ <<"sess", t>> \in Place
      /\ Q[<<"sess", t>>] = Null /\ Q[<<"ret", t>>] = b
  <2>1. IsMoved(P, Q, t, Null, b, c)
    BY <1>1, MovedFacts
  <2> QED BY <2>1 DEF IsMoved
<1>3. R = [Q EXCEPT ![<<"ret", t>>] = Null, ![<<"sess", t>>] = b]
  BY <1>2 DEF Moved
<1> HIDE DEF Q, R
<1>4. R = [Q EXCEPT ![<<"ret", t>>] = Null, ![<<"sess", t>>] = Q[<<"ret", t>>]] /\ <<"ret", t>> # <<"sess", t>>
  BY <1>2, <1>3
<1>5. Counted(M, T, E, R)
  BY <1>1, <1>2, <1>4, PassPlace
<1> QED BY <1>1, <1>5 DEF Using, R

LEMMA PassMore ==
  ASSUME NEW M, NEW T, NEW E, NEW P \in [Place -> SessionOrNull], NEW t \in Thread, NEW a, NEW c,
         Using(M, T, E, P, t, a, Null, c)
  PROVE  Using(M, T, E, P, t, a, c, Null)
<1> DEFINE Q == Moved(P, t, a, Null, c)
           R == Moved(P, t, a, c, Null)
<1>1. Null \in SessionOrNull /\ a \in SessionOrNull /\ c \in SessionOrNull
      /\ Counted(M, T, E, Q)
  BY DEF Using, SessionOrNull
<1>2. /\ Q \in [Place -> SessionOrNull] /\ <<"ret", t>> \in Place /\ <<"more", t>> \in Place
      /\ Q[<<"ret", t>>] = Null /\ Q[<<"more", t>>] = c
  <2>1. IsMoved(P, Q, t, a, Null, c)
    BY <1>1, MovedFacts
  <2> QED BY <2>1 DEF IsMoved
<1>3. R = [Q EXCEPT ![<<"more", t>>] = Null, ![<<"ret", t>>] = c]
  BY <1>2 DEF Moved
<1> HIDE DEF Q, R
<1>4. R = [Q EXCEPT ![<<"more", t>>] = Null, ![<<"ret", t>>] = Q[<<"more", t>>]] /\ <<"more", t>> # <<"ret", t>>
  BY <1>2, <1>3
<1>5. Counted(M, T, E, R)
  BY <1>1, <1>2, <1>4, PassPlace
<1> QED BY <1>1, <1>5 DEF Using, R

LEMMA NewRet ==
  ASSUME NEW T, NEW E, NEW P \in [Place -> SessionOrNull], NEW t \in Thread, NEW a, NEW c,
         Using(mem, T, E, P, t, a, Null, c), now \in Nat,
         NEW i \in Id, NEW M \in New(mem, i), NEW s \in NewAddress(M)
  PROVE  s \in Session /\ Using(M, T, E, P, t, a, s, c)
<1> DEFINE Q == Moved(P, t, a, Null, c)
           R == Moved(P, t, a, s, c)
<1>1. a \in SessionOrNull /\ Null \in SessionOrNull /\ c \in SessionOrNull /\ s \in SessionOrNull
      /\ Counted(mem, T, E, Q) /\ s \in Session
  BY DEF Using, SessionOrNull, NewAddress
<1>2. Q \in [Place -> SessionOrNull] /\ <<"ret", t>> \in Place /\ Q[<<"ret", t>>] = Null
  <2>1. IsMoved(P, Q, t, a, Null, c)
    BY <1>1, MovedFacts
  <2> QED BY <2>1 DEF IsMoved
<1>3. Puts(Q, R, <<"ret", t>>, s)
  BY <1>1, MovedPuts
<1> HIDE DEF Q, R
<1>4. Counted(M, T, E, R)
  BY <1>1, <1>2, <1>3, NewPlace
<1> QED BY <1>1, <1>4 DEF Using, R

LEMMA EntryToRet ==
  ASSUME NEW M, NEW T, NEW E, NEW P \in [Place -> SessionOrNull], NEW t \in Thread, NEW a, NEW c,
         Using(M, T, E, P, t, a, Null, c), NEW i \in Id, NEW s \in Session, <<i, s>> \in T
  PROVE  Using(M, T \ {<<i, s>>}, E, P, t, a, s, c)
<1> DEFINE Q == Moved(P, t, a, Null, c)
           R == Moved(P, t, a, s, c)
<1>1. a \in SessionOrNull /\ Null \in SessionOrNull /\ c \in SessionOrNull /\ s \in SessionOrNull
      /\ Counted(M, T, E, Q)
  BY DEF Using, SessionOrNull
<1>2. Q \in [Place -> SessionOrNull] /\ <<"ret", t>> \in Place /\ Q[<<"ret", t>>] = Null
  <2>1. IsMoved(P, Q, t, a, Null, c)
    BY <1>1, MovedFacts
  <2> QED BY <2>1 DEF IsMoved
<1>3. Puts(Q, R, <<"ret", t>>, s)
  BY <1>1, MovedPuts
<1> HIDE DEF Q, R
<1>4. Counted(M, T \ {<<i, s>>}, E, R)
  BY <1>1, <1>2, <1>3, EntryToPlace
<1> QED BY <1>1, <1>4 DEF Using, R

LEMMA EntryToMore ==
  ASSUME NEW M, NEW T, NEW E, NEW P \in [Place -> SessionOrNull], NEW t \in Thread, NEW a, NEW b,
         Using(M, T, E, P, t, a, b, Null), NEW i \in Id, NEW s \in Session, <<i, s>> \in T
  PROVE  Using(M, T \ {<<i, s>>}, E, P, t, a, b, s)
<1> DEFINE Q == Moved(P, t, a, b, Null)
           R == Moved(P, t, a, b, s)
<1>1. a \in SessionOrNull /\ Null \in SessionOrNull /\ b \in SessionOrNull /\ s \in SessionOrNull
      /\ Counted(M, T, E, Q)
  BY DEF Using, SessionOrNull
<1>2. Q \in [Place -> SessionOrNull] /\ <<"more", t>> \in Place /\ Q[<<"more", t>>] = Null
  <2>1. IsMoved(P, Q, t, a, b, Null)
    BY <1>1, MovedFacts
  <2> QED BY <2>1 DEF IsMoved
<1>3. Puts(Q, R, <<"more", t>>, s)
  BY <1>1, MovedPuts
<1> HIDE DEF Q, R
<1>4. Counted(M, T \ {<<i, s>>}, E, R)
  BY <1>1, <1>2, <1>3, EntryToPlace
<1> QED BY <1>1, <1>4 DEF Using, R

LEMMA RetToEntry ==
  ASSUME NEW M, NEW T, NEW E, NEW P \in [Place -> SessionOrNull], NEW t \in Thread, NEW a, NEW s \in Session, NEW c,
         Using(M, T, E, P, t, a, s, c), NEW i \in Id, <<i, s>> \notin T
  PROVE  Using(M, T \cup {<<i, s>>}, E, P, t, a, Null, c)
<1> DEFINE Q == Moved(P, t, a, s, c)
           R == Moved(P, t, a, Null, c)
<1>1. a \in SessionOrNull /\ Null \in SessionOrNull /\ c \in SessionOrNull /\ s \in SessionOrNull
      /\ Counted(M, T, E, Q)
  BY DEF Using, SessionOrNull
<1>2. Q \in [Place -> SessionOrNull] /\ <<"ret", t>> \in Place /\ Q[<<"ret", t>>] = s
  <2>1. IsMoved(P, Q, t, a, s, c)
    BY <1>1, MovedFacts
  <2> QED BY <2>1 DEF IsMoved
<1>3. Puts(Q, R, <<"ret", t>>, Null)
  BY <1>1, MovedPuts
<1> HIDE DEF Q, R
<1>4. Counted(M, T \cup {<<i, s>>}, E, R)
  BY <1>1, <1>2, <1>3, PlaceToEntry
<1> QED BY <1>1, <1>4 DEF Using, R

-----------------------------------------------------------------------------
(* What a step has to show.                                                 *)

(* From memory M to N sessions keep their IDs and links, and only new ones  *)
(* come to life.                                                           *)
Kept(M, N) ==
  \A x \in Session : N[x].live =>
    IF M[x].live THEN N[x].id = M[x].id /\ N[x].prev = M[x].prev /\ N[x].next = M[x].next
    ELSE N[x].prev = Null /\ N[x].next = Null
(* ... and none comes to life.                                             *)
Old(M, N) ==
  \A x \in Session : N[x].live =>
    /\ M[x].live /\ N[x].id = M[x].id /\ N[x].prev = M[x].prev /\ N[x].next = M[x].next

LEMMA OldIsKept == \A M, N : Old(M, N) => Kept(M, N)
BY DEF Old, Kept

LEMMA OldSame == \A M : Old(M, M)
BY DEF Old

LEMMA OldOld == \A L, M, N : Old(L, M) /\ Old(M, N) => Old(L, N)
BY DEF Old

LEMMA KeptOld == \A L, M, N : Kept(L, M) /\ Old(M, N) => Kept(L, N)
BY DEF Old, Kept

LEMMA UpRefFacts ==
  ASSUME NEW M \in [Session -> Sessions], NEW s \in Session
  PROVE  UpRef(M, s) \in [Session -> Sessions] /\ Old(M, UpRef(M, s))
<1>1. UpRef(M, s) = [M EXCEPT ![s] = [M[s] EXCEPT !.refs = M[s].refs + 1]]
  BY DEF UpRef
<1>2. M[s] \in Sessions /\ [M[s] EXCEPT !.refs = M[s].refs + 1] \in Sessions
  BY DEF Sessions
<1>3. UpRef(M, s) \in [Session -> Sessions]
  BY <1>1, <1>2
<1>4. ASSUME NEW x \in Session
      PROVE /\ UpRef(M, s)[x].live = M[x].live /\ UpRef(M, s)[x].id = M[x].id
            /\ UpRef(M, s)[x].prev = M[x].prev /\ UpRef(M, s)[x].next = M[x].next
  <2>1. CASE x = s
    BY <1>1, <2>1 DEF Sessions
  <2>2. CASE x # s
    BY <1>1, <2>2
  <2> QED BY <2>1, <2>2
<1> QED BY <1>3, <1>4 DEF Old

LEMMA FreeFacts ==
  ASSUME NEW M \in [Session -> Sessions], NEW s \in SessionOrNull
  PROVE  Old(M, Free(M, s))
<1>1. CASE s = Null
  BY <1>1, FreeNull, OldSame
<1>2. CASE s \in Session
  <2>1. Free(M, s) = [M EXCEPT ![s] = IF M[s].refs = 1 THEN Blank
                                      ELSE [M[s] EXCEPT !.refs = M[s].refs - 1]]
    BY <1>2, Pointers DEF Free
  <2>2. ASSUME NEW x \in Session, Free(M, s)[x].live
        PROVE  /\ M[x].live /\ Free(M, s)[x].id = M[x].id
               /\ Free(M, s)[x].prev = M[x].prev /\ Free(M, s)[x].next = M[x].next
    <3>1. CASE x = s /\ M[s].refs = 1
      BY <2>1, <2>2, <3>1, BlankFacts
    <3>2. CASE x = s /\ M[s].refs # 1
      <4>1. Free(M, s)[x] = [M[s] EXCEPT !.refs = M[s].refs - 1] /\ M[s] \in Sessions
        BY <2>1, <3>2
      <4> QED BY <4>1, <3>2, <2>2 DEF Sessions
    <3>3. CASE x # s
      BY <2>1, <2>2, <3>3
    <3> QED BY <3>1, <3>2, <3>3
  <2> QED BY <2>2 DEF Old
<1> QED BY <1>1, <1>2 DEF SessionOrNull

LEMMA NewKept ==
  ASSUME NEW H, Sound(mem, H), now \in Nat, NEW i \in Id, NEW M \in New(mem, i), NEW s \in NewAddress(M)
  PROVE  Kept(mem, M)
<1>1. s \in Session /\ ~mem[s].live /\ M = [mem EXCEPT ![s] = Newborn(i)] /\ mem \in [Session -> Sessions]
  BY NewFacts DEF Added, Sound
<1>2. Newborn(i).prev = Null /\ Newborn(i).next = Null
  BY NewbornFacts
<1>3. M[s] = Newborn(i) /\ \A x \in Session : x # s => M[x] = mem[x]
  BY <1>1
<1>4. ASSUME NEW x \in Session, M[x].live
      PROVE  IF mem[x].live THEN M[x].id = mem[x].id /\ M[x].prev = mem[x].prev /\ M[x].next = mem[x].next
             ELSE M[x].prev = Null /\ M[x].next = Null
  <2>1. CASE x = s
    BY <1>1, <1>2, <1>3, <2>1
  <2>2. CASE x # s
    <3>1. M[x] = mem[x]
      BY <1>3, <2>2
    <3> QED BY <3>1, <1>4
  <2> QED BY <2>1, <2>2
<1> QED BY <1>4 DEF Kept

(* A cache that is left alone stays right.                                 *)
AllLive(M, C) == \A s \in Cached(C) : M[s].live

LEMMA QuietLive ==
  ASSUME NEW M, NEW C \in Caches, AllLive(M, C),
         NEW N, NEW F, NEW Q, Counted(N, C.table, F, Q), Kept(M, N)
  PROVE  /\ Unique(M, C.table) => Unique(N, C.table)
         /\ Filed(M, C.table) => Filed(N, C.table)
         /\ Linked(M, C) => Linked(N, C)
<1> DEFINE T == C.table
<1>1. \A e \in T : e[1] \in Id /\ e[2] \in Session /\ e = <<e[1], e[2]>>
  BY DEF Caches
<1>2. ASSUME NEW s \in Cached(C)
      PROVE  s \in Session /\ M[s].live /\ N[s].live
  <2>1. PICK e \in T : s = e[2]
    BY DEF Cached
  <2>2. e[1] \in Id /\ s \in Session /\ <<e[1], s>> \in T
    BY <1>1, <2>1
  <2>3. M[s].live
    BY DEF AllLive
  <2>4. N[s].live
    BY <2>2, LiveIsHeld
  <2> QED BY <2>2, <2>3, <2>4
<1>3. \A s \in Cached(C) : /\ s \in Session /\ N[s].id = M[s].id /\ N[s].prev = M[s].prev
                           /\ N[s].next = M[s].next
  BY <1>2 DEF Kept
<1>4. \A e \in T : N[e[2]].id = M[e[2]].id
  BY <1>3 DEF Cached
<1>5. Unique(M, T) => Unique(N, T)
  BY <1>4 DEF Unique
<1>6. Filed(M, T) => Filed(N, T)
  BY <1>4 DEF Filed
<1>7. ASSUME NEW q, IsList(q, M, C), Elements(q) \subseteq Cached(C)
      PROVE  IsList(q, N, C)
  <2>1. \A i \in 1..Len(q) : q[i] \in Cached(C)
    BY <1>7 DEF Elements
  <2>2. \A i \in 1..Len(q) : N[q[i]].prev = M[q[i]].prev /\ N[q[i]].next = M[q[i]].next
    BY <2>1, <1>3
  <2>3. ASSUME NEW s \in Session, \A i \in 1..Len(q) : q[i] # s
        PROVE  N[s].prev = Null /\ N[s].next = Null
    <3>1. M[s].prev = Null /\ M[s].next = Null
      BY <1>7, <2>3 DEF IsList
    <3>2. CASE N[s].live
      BY <3>1, <3>2 DEF Kept
    <3>3. CASE ~N[s].live
      <4>1. N[s] = Blank
        BY <3>3, LiveIsHeld
      <4> QED BY <4>1, BlankFacts
    <3> QED BY <3>2, <3>3
  <2> QED BY <1>7, <2>2, <2>3 DEF IsList
<1>8. Linked(M, C) => Linked(N, C)
  BY <1>7 DEF Linked
<1> QED BY <1>5, <1>6, <1>8

LEMMA CachedIsLive ==
  ASSUME NEW M, NEW C \in Caches, NEW E, NEW P, Counted(M, C.table, E, P)
  PROVE  AllLive(M, C)
<1>1. ASSUME NEW e \in C.table PROVE e[2] \in Session /\ M[e[2]].live
  <2>1. e[1] \in Id /\ e[2] \in Session /\ e = <<e[1], e[2]>>
    BY DEF Caches
  <2> QED BY <2>1, LiveIsHeld
<1> QED BY <1>1 DEF Cached, AllLive

LEMMA QuietCache ==
  ASSUME NEW M, NEW C \in Caches, NEW E, NEW P, Counted(M, C.table, E, P),
         NEW N, NEW F, NEW Q, Counted(N, C.table, F, Q), Kept(M, N)
  PROVE  /\ Unique(M, C.table) => Unique(N, C.table)
         /\ Filed(M, C.table) => Filed(N, C.table)
         /\ Linked(M, C) => Linked(N, C)
BY CachedIsLive, QuietLive

LEMMA UsingNow ==
  ASSUME Inv, NEW t \in Thread
  PROVE  /\ conn[t] \in Conns /\ ConnOK(conn[t], lock = t) /\ mem \in [Session -> Sessions]
         /\ Places \in [Place -> SessionOrNull] /\ cache \in Caches /\ now \in Nat
         /\ Using(mem, cache.table, ext, Places, t, Use(conn[t], "sess"), Use(conn[t], "ret"), Use(conn[t], "more"))
<1>1. conn \in [Thread -> Conns] /\ pocket \in SessionOrNull /\ cache \in Caches /\ now \in Nat
  BY DEF Inv, Types
<1>2. conn[t] \in Conns
  BY <1>1
<1>3. /\ Use(conn[t], "sess") \in SessionOrNull /\ Use(conn[t], "ret") \in SessionOrNull
      /\ Use(conn[t], "more") \in SessionOrNull
  BY <1>2, UseType
<1>4. Places = Moved(Places, t, Use(conn[t], "sess"), Use(conn[t], "ret"), Use(conn[t], "more"))
  BY <1>1, <1>2, PlacesMove DEF Places
<1>5. Places \in [Place -> SessionOrNull]
  BY <1>1, PlacesType DEF Places
<1>6. Counted(mem, cache.table, ext, Places) /\ ConnOK(conn[t], lock = t)
  BY DEF Inv, CountInv, ConnInv
<1>7. mem \in [Session -> Sessions]
  BY <1>6 DEF Counted, Sound
<1>8. Using(mem, cache.table, ext, Places, t, Use(conn[t], "sess"), Use(conn[t], "ret"), Use(conn[t], "more"))
  <2> DEFINE a == Use(conn[t], "sess")
             b == Use(conn[t], "ret")
             c == Use(conn[t], "more")
  <2>1. Counted(mem, cache.table, ext, Moved(Places, t, a, b, c))
    BY <1>4, <1>6
  <2> QED BY <2>1, <1>3 DEF Using
<1> QED BY <1>1, <1>2, <1>5, <1>6, <1>7, <1>8

LEMMA StepOf ==
  ASSUME Inv, NEW t \in Thread, NEW c \in Conns, Set(t, c), ConnOK(c, lock' = t),
         lock' \in Thread \cup {Null}, \A u \in Thread : u # t => (lock' = u <=> lock = u),
         cache' \in Caches, ext' \in SUBSET Session, pocket' = pocket, now' = now,
         Using(mem', cache'.table, ext', Places, t, Use(c, "sess"), Use(c, "ret"), Use(c, "more")),
         UniqueInv', FiledInv', LinkedInv'
  PROVE  Inv'
<1>1. conn \in [Thread -> Conns] /\ pocket \in SessionOrNull /\ now \in 0..MaxTime
  BY DEF Inv, Types
<1>2. conn' = [conn EXCEPT ![t] = c]
  BY DEF Set
<1>3. conn' \in [Thread -> Conns] /\ conn'[t] = c /\ \A u \in Thread : u # t => conn'[u] = conn[u]
  BY <1>1, <1>2
<1>4. Types'
  BY <1>1, <1>3 DEF Types
<1>5. ConnInv'
  <2>1. ASSUME NEW u \in Thread PROVE ConnOK(conn'[u], lock' = u)
    <3>1. CASE u = t
      BY <3>1, <1>3
    <3>2. CASE u # t
      <4>1. conn'[u] = conn[u] /\ (lock' = u <=> lock = u) /\ ConnOK(conn[u], lock = u)
        BY <1>3, <3>2 DEF Inv, ConnInv
      <4> QED BY <4>1 DEF ConnOK
    <3> QED BY <3>1, <3>2
  <2> QED BY <2>1 DEF ConnInv
<1>6. CountInv'
  <2>1. PlacesOf(conn', pocket) = Moved(Places, t, Use(c, "sess"), Use(c, "ret"), Use(c, "more"))
    BY <1>1, <1>2, PlacesMove DEF Places
  <2>2. Counted(mem', cache'.table, ext', PlacesOf(conn', pocket'))
    BY <2>1 DEF Using
  <2> QED BY <2>2 DEF CountInv, Places
<1> QED BY <1>4, <1>5, <1>6 DEF Inv

LEMMA QuietStep ==
  ASSUME Inv, NEW t \in Thread, NEW c \in Conns, Set(t, c), ConnOK(c, lock' = t),
         lock' \in Thread \cup {Null}, \A u \in Thread : u # t => (lock' = u <=> lock = u),
         cache' = cache, ext' \in SUBSET Session, pocket' = pocket, now' = now,
         Using(mem', cache.table, ext', Places, t, Use(c, "sess"), Use(c, "ret"), Use(c, "more")),
         Kept(mem, mem')
  PROVE  Inv'
<1>1. /\ cache \in Caches /\ Counted(mem, cache.table, ext, Places)
      /\ Unique(mem, cache.table) /\ (NoRenewal => Filed(mem, cache.table)) /\ Linked(mem, cache)
  BY DEF Inv, Types, CountInv, UniqueInv, FiledInv, LinkedInv
<1> DEFINE Q == Moved(Places, t, Use(c, "sess"), Use(c, "ret"), Use(c, "more"))
<1>2. Counted(mem', cache.table, ext', Q)
  BY DEF Using
<1> HIDE DEF Q
<1>3. /\ Unique(mem', cache.table) /\ (NoRenewal => Filed(mem', cache.table)) /\ Linked(mem', cache)
  BY <1>1, <1>2, QuietCache
<1>4. UniqueInv' /\ FiledInv' /\ LinkedInv'
  BY <1>3 DEF UniqueInv, FiledInv, LinkedInv
<1> QED BY <1>1, <1>4, StepOf

(* A connection's pc alone.                                                *)
LEMMA PureStep ==
  ASSUME Inv, NEW t \in Thread, NEW c \in Conns, Set(t, c), ConnOK(c, lock' = t),
         lock' \in Thread \cup {Null}, \A u \in Thread : u # t => (lock' = u <=> lock = u),
         UNCHANGED <<mem, cache, ext, pocket, now>>,
         Use(c, "sess") = Use(conn[t], "sess"), Use(c, "ret") = Use(conn[t], "ret"),
         Use(c, "more") = Use(conn[t], "more")
  PROVE  Inv'
<1>1. /\ ext \in SUBSET Session
      /\ Using(mem, cache.table, ext, Places, t, Use(conn[t], "sess"), Use(conn[t], "ret"), Use(conn[t], "more"))
  BY UsingNow DEF Inv, Types
<1>2. Using(mem', cache.table, ext', Places, t, Use(c, "sess"), Use(c, "ret"), Use(c, "more"))
  BY <1>1
<1>3. Kept(mem, mem')
  BY OldSame, OldIsKept
<1>4. cache' = cache /\ ext' \in SUBSET Session /\ pocket' = pocket /\ now' = now
  BY <1>1
<1> QED BY <1>2, <1>3, <1>4, QuietStep

-----------------------------------------------------------------------------
(* The steps that leave mem and cache alone.                                *)

LEMMA GotoFacts ==
  ASSUME NEW c \in Conns, NEW p \in PC
  PROVE  LET d == [c EXCEPT !.pc = p] IN
         d \in Conns /\ d.pc = p /\ d.sess = c.sess /\ d.ret = c.ret /\ d.back = c.back
BY DEF Conns

(* What a connection holds, by its pc.                                     *)
LEMMA UseFacts ==
  ASSUME NEW c
  PROVE  /\ Use(c, "sess") = c.sess
         /\ c.pc # "evict" => Use(c, "ret") = c.ret
         /\ c.pc = "evict" => Use(c, "ret") = Null
         /\ c.pc \notin {"add", "evict", "unlinked"} => Use(c, "more") = Null
         /\ c.pc \in {"add", "evict"} => Use(c, "more") = IF c.back = "given" THEN c.ret ELSE Null
         /\ c.pc = "unlinked" => Use(c, "more") = IF c.back = "release" THEN c.ret ELSE Null
BY DEF Use, HoldsMore

(* A move between two pcs that hold the same.                              *)
Plain == PC \ {"add", "evict", "unlinked"}
LEMMA PlainStep ==
  ASSUME Inv, NEW t \in Thread, NEW c \in Conns, Set(t, c), ConnOK(c, lock' = t),
         lock' \in Thread \cup {Null}, \A u \in Thread : u # t => (lock' = u <=> lock = u),
         UNCHANGED <<mem, cache, ext, pocket, now>>,
         c.sess = conn[t].sess, c.ret = conn[t].ret, c.pc \in Plain, conn[t].pc \in Plain
  PROVE  Inv'
<1>1. c.pc \notin {"add", "evict", "unlinked"} /\ conn[t].pc \notin {"add", "evict", "unlinked"}
  BY DEF Plain
<1>2. Use(c, "sess") = Use(conn[t], "sess") /\ Use(c, "ret") = Use(conn[t], "ret")
      /\ Use(c, "more") = Use(conn[t], "more")
  BY <1>1, UseFacts
<1> QED BY <1>2, PureStep

LEMMA StartInv == ASSUME Inv, NEW t \in Thread, Start(t) PROVE Inv'
<1>1. PICK role \in Roles : Set(t, [NoConn EXCEPT !.pc = "hello", !.role = role])
  BY DEF Start
<1> DEFINE c == [NoConn EXCEPT !.pc = "hello", !.role = role]
<1>2. c \in Conns /\ c.pc = "hello" /\ c.sess = Null /\ c.ret = Null
  BY SizesAssumption DEF SizesAssumption, NoConn, Conns, PC, SessionOrNull
<1> HIDE DEF c
<1>3. conn[t] \in Conns /\ ConnOK(conn[t], lock = t) /\ conn[t].pc = "idle"
  BY UsingNow DEF Start, At
<1>4. conn[t].sess = Null /\ conn[t].ret = Null
  BY <1>3 DEF ConnOK, HasRet, Conns, SessionOrNull
<1>5. ConnOK(c, lock = t)
  BY <1>2, <1>3, Pointers DEF ConnOK, HasRet, HasSess
<1>6. UNCHANGED <<mem, cache, lock, ext, pocket, now>> /\ lock \in Thread \cup {Null} /\ Set(t, c)
  BY <1>1 DEF Start, Inv, Types, c
<1>7. c.pc \in Plain /\ conn[t].pc \in Plain
  BY <1>2, <1>3 DEF Plain, PC
<1> QED BY <1>2, <1>4, <1>5, <1>6, <1>7, PlainStep

(* Goto between plain pcs, the lock left alone.                            *)
LEMMA GotoStep ==
  ASSUME Inv, NEW t \in Thread, NEW p \in PC, Goto(t, p), UNCHANGED <<mem, cache, lock, ext, pocket, now>>,
         conn[t].pc \in Plain \ {"flush"}, p \in Plain \ {"idle", "flush"},
         HasSess([conn[t] EXCEPT !.pc = p]) => conn[t].sess \in Session,
         HasRet([conn[t] EXCEPT !.pc = p]) <=> HasRet(conn[t])
  PROVE  Inv'
<1> DEFINE c == [conn[t] EXCEPT !.pc = p]
<1>1. conn[t] \in Conns /\ ConnOK(conn[t], lock = t)
  BY UsingNow
<1>2. c \in Conns /\ c.pc = p /\ c.sess = conn[t].sess /\ c.ret = conn[t].ret /\ c.back = conn[t].back
  BY <1>1, GotoFacts
<1>3. Set(t, c) /\ (HasSess(c) => conn[t].sess \in Session) /\ (HasRet(c) <=> HasRet(conn[t]))
  BY DEF Goto, k
<1> HIDE DEF c
<1>4. ConnOK(c, lock = t)
  BY <1>1, <1>2, <1>3 DEF ConnOK, Plain
<1>5. lock \in Thread \cup {Null}
  BY DEF Inv, Types
<1> QED BY <1>2, <1>3, <1>4, <1>5, PlainStep

LEMMA GotoUses ==
  ASSUME NEW c \in Conns, NEW p \in PC
  PROVE  /\ HasRet([c EXCEPT !.pc = p])
              <=> p \in {"found", "given", "store", "expired", "release", "add", "evict", "unlinked"}
         /\ HasSess([c EXCEPT !.pc = p])
              => \/ p \in {"offered", "handshake", "notify", "up", "failed"}
                 \/ p \in {"add", "evict"} \/ p = "unlinked"
BY GotoFacts DEF HasRet, HasSess

LEMMA NoOfferInv == ASSUME Inv, NEW t \in Thread, NoOffer(t) PROVE Inv'
<1>1. conn[t] \in Conns /\ conn[t].pc = "hello" /\ "new" \in PC
  BY UsingNow DEF NoOffer, At, PC
<1>2. /\ HasSess([conn[t] EXCEPT !.pc = "new"]) => conn[t].sess \in Session
      /\ HasRet([conn[t] EXCEPT !.pc = "new"]) <=> HasRet(conn[t])
  BY <1>1, GotoUses DEF HasRet
<1>3. Goto(t, "new") /\ UNCHANGED <<mem, cache, lock, ext, pocket, now>>
  BY DEF NoOffer
<1>4. conn[t].pc \in Plain \ {"flush"} /\ "new" \in Plain \ {"idle", "flush"}
  BY <1>1 DEF Plain, PC
<1> QED BY <1>1, <1>2, <1>3, <1>4, GotoStep

LEMMA ClientHelloInv == ASSUME Inv, NEW t \in Thread, ClientHello(t) PROVE Inv'
<1>1. /\ conn[t] \in Conns /\ conn[t].pc = "hello" /\ "new" \in PC /\ "offered" \in PC
      /\ UNCHANGED <<mem, cache, lock, ext, pocket, now>>
  BY UsingNow DEF ClientHello, At, PC
<1>2. conn[t].pc \in Plain \ {"flush"} /\ "new" \in Plain \ {"idle", "flush"}
      /\ "offered" \in Plain \ {"idle", "flush"}
  BY <1>1 DEF Plain, PC
<1>3. CASE Goto(t, "new")
  <2>1. /\ HasSess([conn[t] EXCEPT !.pc = "new"]) => conn[t].sess \in Session
        /\ HasRet([conn[t] EXCEPT !.pc = "new"]) <=> HasRet(conn[t])
    BY <1>1, GotoUses DEF HasRet
  <2> QED BY <1>1, <1>2, <1>3, <2>1, GotoStep
<1>4. CASE Goto(t, "offered") /\ conn[t].sess # Null
  <2>1. /\ HasSess([conn[t] EXCEPT !.pc = "offered"]) => conn[t].sess \in Session
        /\ HasRet([conn[t] EXCEPT !.pc = "offered"]) <=> HasRet(conn[t])
    BY <1>1, <1>4, GotoUses DEF HasRet, Conns, SessionOrNull
  <2> QED BY <1>1, <1>2, <1>4, <2>1, GotoStep
<1> QED BY <1>3, <1>4 DEF ClientHello, k

LEMMA RenegotiateInv == ASSUME Inv, NEW t \in Thread, Renegotiate(t) PROVE Inv'
<1>1. conn[t] \in Conns /\ conn[t].pc = "up" /\ "hello" \in PC
  BY UsingNow DEF Renegotiate, At, PC
<1>2. /\ HasSess([conn[t] EXCEPT !.pc = "hello"]) => conn[t].sess \in Session
      /\ HasRet([conn[t] EXCEPT !.pc = "hello"]) <=> HasRet(conn[t])
  BY <1>1, GotoUses DEF HasRet
<1>3. Goto(t, "hello") /\ UNCHANGED <<mem, cache, lock, ext, pocket, now>>
  BY DEF Renegotiate
<1>4. conn[t].pc \in Plain \ {"flush"} /\ "hello" \in Plain \ {"idle", "flush"}
  BY <1>1 DEF Plain, PC
<1> QED BY <1>1, <1>2, <1>3, <1>4, GotoStep

LEMMA SwitchInv == ASSUME Inv, NEW t \in Thread, Switch(t) PROVE Inv'
<1> DEFINE c == [conn[t] EXCEPT !.switched = TRUE]
<1>1. conn[t] \in Conns /\ ConnOK(conn[t], lock = t) /\ conn[t].pc = "handshake"
  BY UsingNow DEF Switch, At
<1>2. c \in Conns /\ c.pc = "handshake" /\ c.sess = conn[t].sess /\ c.ret = conn[t].ret
  BY <1>1 DEF Conns
<1>3. Set(t, c) /\ UNCHANGED <<mem, cache, lock, ext, pocket, now>> /\ lock \in Thread \cup {Null}
  BY DEF Switch, k, Inv, Types
<1> HIDE DEF c
<1>4. ConnOK(c, lock = t)
  BY <1>1, <1>2 DEF ConnOK, HasSess, HasRet
<1>5. c.pc \in Plain /\ conn[t].pc \in Plain
  BY <1>1, <1>2 DEF Plain, PC
<1> QED BY <1>2, <1>3, <1>4, <1>5, PlainStep

LEMMA FlushInv == ASSUME Inv, NEW t \in Thread, Flush(t) PROVE Inv'
<1> DEFINE c == [conn[t] EXCEPT !.pc = "flush"]
<1>1. conn[t] \in Conns /\ ConnOK(conn[t], lock = t) /\ conn[t].pc = "idle" /\ "flush" \in PC /\ lock = Null
  BY UsingNow DEF Flush, At, PC
<1>2. c \in Conns /\ c.pc = "flush" /\ c.sess = conn[t].sess /\ c.ret = conn[t].ret
  BY <1>1, GotoFacts
<1>3. Set(t, c) /\ UNCHANGED <<mem, cache, ext, pocket, now>> /\ lock' = t
  BY DEF Flush, Goto, k
<1> HIDE DEF c
<1>4. ConnOK(c, lock' = t)
  BY <1>1, <1>2, <1>3 DEF ConnOK, HasSess, HasRet
<1>5. c.pc \in Plain /\ conn[t].pc \in Plain /\ \A u \in Thread : u # t => (lock' = u <=> lock = u)
  BY <1>1, <1>2, <1>3, Pointers DEF Plain, PC
<1> QED BY <1>2, <1>3, <1>4, <1>5, PlainStep

LEMMA FlushDoneInv == ASSUME Inv, NEW t \in Thread, FlushDone(t) PROVE Inv'
<1> DEFINE c == [conn[t] EXCEPT !.pc = "idle"]
<1>1. conn[t] \in Conns /\ ConnOK(conn[t], lock = t) /\ conn[t].pc = "flush" /\ "idle" \in PC
  BY UsingNow DEF FlushDone, At, PC
<1>2. c \in Conns /\ c.pc = "idle" /\ c.sess = conn[t].sess /\ c.ret = conn[t].ret
  BY <1>1, GotoFacts
<1>3. Set(t, c) /\ UNCHANGED <<mem, cache, ext, pocket, now>> /\ lock' = Null
  BY DEF FlushDone, Goto, k
<1> HIDE DEF c
<1>4. ConnOK(c, lock' = t) /\ lock = t
  BY <1>1, <1>2, <1>3, Pointers DEF ConnOK, HasSess, HasRet
<1>5. c.pc \in Plain /\ conn[t].pc \in Plain /\ \A u \in Thread : u # t => (lock' = u <=> lock = u)
  BY <1>1, <1>2, <1>3, <1>4, Pointers DEF Plain, PC
<1> QED BY <1>2, <1>3, <1>4, <1>5, PlainStep

LEMMA TickInv == ASSUME Inv, Tick PROVE Inv'
<1>1. UNCHANGED <<mem, cache, lock, conn, ext, pocket>> /\ now' \in 0..MaxTime
  BY SizesAssumption DEF Tick, Inv, Types, SizesAssumption
<1> QED BY <1>1 DEF Inv, Types, CountInv, Places, ConnInv, UniqueInv, FiledInv, LinkedInv

-----------------------------------------------------------------------------
(* The steps that move references and leave the cache alone.                *)

LEMMA UsingFacts ==
  ASSUME NEW M, NEW T, NEW E, NEW P \in [Place -> SessionOrNull], NEW t \in Thread, NEW a, NEW b, NEW c,
         Using(M, T, E, P, t, a, b, c)
  PROVE  /\ M \in [Session -> Sessions]
         /\ a \in SessionOrNull /\ b \in SessionOrNull /\ c \in SessionOrNull
         /\ a \in Session => M[a].live
         /\ b \in Session => M[b].live
         /\ c \in Session => M[c].live
         /\ \A s \in Session : /\ s \in E => M[s].live
                               /\ M[s].live => M[s].id \in Id
                               /\ ~M[s].live => M[s] = Blank
         /\ \A s \in Session, i \in Id : <<i, s>> \in T => M[s].live
<1> DEFINE Q == Moved(P, t, a, b, c)
<1>1. a \in SessionOrNull /\ b \in SessionOrNull /\ c \in SessionOrNull /\ Counted(M, T, E, Q)
  BY DEF Using
<1>2. IsMoved(P, Q, t, a, b, c)
  BY <1>1, MovedFacts
<1> HIDE DEF Q
<1>3. M \in [Session -> Sessions]
  BY <1>1 DEF Counted, Sound
<1>4. \A s \in Session : /\ s \in E => M[s].live
                         /\ \A i \in Id : <<i, s>> \in T => M[s].live
                         /\ M[s].live => M[s].id \in Id
                         /\ ~M[s].live => M[s] = Blank
  BY <1>1, LiveIsHeld
<1>5. \A s \in Session : \A p \in Place : Q[p] = s => M[s].live
  BY <1>1, LiveIsHeld
<1>6. /\ <<"sess", t>> \in Place /\ <<"ret", t>> \in Place /\ <<"more", t>> \in Place
      /\ Q[<<"sess", t>>] = a /\ Q[<<"ret", t>>] = b /\ Q[<<"more", t>>] = c
  BY <1>2 DEF IsMoved
<1>7. (a \in Session => M[a].live) /\ (b \in Session => M[b].live) /\ (c \in Session => M[c].live)
  BY <1>5, <1>6
<1> QED BY <1>1, <1>3, <1>4, <1>7

LEMMA PlainUse ==
  ASSUME NEW c, c.pc \in Plain
  PROVE  Use(c, "sess") = c.sess /\ Use(c, "ret") = c.ret /\ Use(c, "more") = Null
<1>1. c.pc \notin {"add", "evict", "unlinked"}
  BY DEF Plain
<1> QED BY <1>1, UseFacts

LEMMA UsingPlain ==
  ASSUME Inv, NEW t \in Thread, conn[t].pc \in Plain
  PROVE  /\ Using(mem, cache.table, ext, Places, t, conn[t].sess, conn[t].ret, Null)
         /\ conn[t].ret \in SessionOrNull /\ conn[t].sess \in SessionOrNull
         /\ ~HasRet(conn[t]) => conn[t].ret = Null
         /\ HasRet(conn[t]) => conn[t].ret \in Session
         /\ HasSess(conn[t]) => conn[t].sess \in Session
<1>1. /\ conn[t] \in Conns /\ ConnOK(conn[t], lock = t)
      /\ Using(mem, cache.table, ext, Places, t, Use(conn[t], "sess"), Use(conn[t], "ret"), Use(conn[t], "more"))
  BY UsingNow
<1>2. Use(conn[t], "sess") = conn[t].sess /\ Use(conn[t], "ret") = conn[t].ret /\ Use(conn[t], "more") = Null
  BY PlainUse
<1>3. conn[t].ret \in SessionOrNull /\ conn[t].sess \in SessionOrNull
  BY <1>1 DEF Conns
<1>4. /\ ~HasRet(conn[t]) => conn[t].ret = Null
      /\ HasRet(conn[t]) => conn[t].ret \in Session
      /\ HasSess(conn[t]) => conn[t].sess \in Session
  BY <1>1, <1>3 DEF ConnOK, SessionOrNull
<1> QED BY <1>1, <1>2, <1>3, <1>4

LEMMA PlainQuiet ==
  ASSUME Inv, NEW t \in Thread, NEW c \in Conns, Set(t, c), c.pc \in Plain \ {"flush"},
         conn[t].pc \in Plain \ {"flush"}, UNCHANGED <<cache, lock, pocket, now>>, ext' \in SUBSET Session,
         HasSess(c) => c.sess \in Session, HasRet(c) <=> c.ret \in Session, c.pc = "idle" => c.sess = Null,
         Using(mem', cache.table, ext', Places, t, c.sess, c.ret, Null), Kept(mem, mem')
  PROVE  Inv'
<1>1. ConnOK(conn[t], lock = t) /\ lock \in Thread \cup {Null}
  BY UsingNow DEF Inv, Types
<1>2. Use(c, "sess") = c.sess /\ Use(c, "ret") = c.ret /\ Use(c, "more") = Null
  BY PlainUse
<1>3. Using(mem', cache.table, ext', Places, t, Use(c, "sess"), Use(c, "ret"), Use(c, "more"))
  BY <1>2
<1>4. ConnOK(c, lock = t)
  BY <1>1 DEF ConnOK, Plain
<1> QED BY <1>1, <1>3, <1>4, QuietStep

LEMMA ExtType == Inv => ext \in SUBSET Session
BY DEF Inv, Types

LEMMA SetSessionInv == ASSUME Inv, NEW t \in Thread, SetSession(t) PROVE Inv'
<1> DEFINE c == [conn[t] EXCEPT !.sess = pocket]
           T == cache.table
           old == conn[t].sess
           M1 == UpRef(mem, pocket)
           M2 == Free(M1, old)
<1>1. conn[t] \in Conns /\ conn[t].pc = "hello" /\ Places \in [Place -> SessionOrNull]
  BY UsingNow DEF SetSession, At
<1>2. pocket \in Session
  BY DEF SetSession, Inv, Types, SessionOrNull
<1>3. conn[t].pc \in Plain \ {"flush"} /\ ~HasRet(conn[t])
  BY <1>1 DEF Plain, PC, HasRet
<1>4. Using(mem, T, ext, Places, t, old, Null, Null) /\ conn[t].ret = Null /\ old \in SessionOrNull
  BY <1>3, UsingPlain
<1>5. mem[pocket].live
  <2>1. Places[<<"pocket", Null>>] = pocket /\ <<"pocket", Null>> \in Place
    BY PlacesType DEF Inv, Types, Places
  <2>2. Counted(mem, T, ext, Places)
    BY DEF Inv, CountInv
  <2> QED BY <1>2, <2>1, <2>2, LiveIsHeld
<1>6. mem \in [Session -> Sessions]
  BY UsingNow
<1>7. M1 \in [Session -> Sessions] /\ Old(mem, M1)
  BY <1>2, <1>6, UpRefFacts
<1>8. Using(M1, T, ext, Places, t, old, pocket, Null)
  BY <1>1, <1>2, <1>4, <1>5, TakeRet
<1> HIDE DEF M1
<1>9. Using(M2, T, ext, Places, t, Null, pocket, Null)
  BY <1>1, <1>8, DropSess
<1>10. Old(M1, M2)
  BY <1>4, <1>7, FreeFacts
<1> HIDE DEF M2
<1>11. Using(M2, T, ext, Places, t, pocket, Null, Null)
  BY <1>1, <1>9, PassRet
<1>12. Kept(mem, M2)
  BY <1>7, <1>10, OldOld, OldIsKept
<1>13. c \in Conns /\ c.pc = "hello" /\ c.sess = pocket /\ c.ret = Null
  BY <1>1, <1>2, <1>4 DEF Conns, SessionOrNull
<1>14. Set(t, c) /\ mem' = M2 /\ UNCHANGED <<cache, lock, ext, pocket, now>>
  BY DEF SetSession, k, M1, M2
<1> HIDE DEF c
<1>15. c.pc \in Plain \ {"flush"} /\ ~HasRet(c) /\ ~HasSess(c)
  BY <1>13 DEF Plain, PC, HasRet, HasSess
<1> QED BY <1>3, <1>11, <1>12, <1>13, <1>14, <1>15, PlainQuiet, ExtType, Pointers

LEMMA LookupInv == ASSUME Inv, NEW t \in Thread, NEW i \in Id, Lookup(t, i) PROVE Inv'
<1> DEFINE T == cache.table
<1>1. conn[t] \in Conns /\ conn[t].pc = "hello" /\ Places \in [Place -> SessionOrNull] /\ cache \in Caches
      /\ mem \in [Session -> Sessions]
  BY UsingNow DEF Lookup, At
<1>2. conn[t].pc \in Plain \ {"flush"} /\ ~HasRet(conn[t])
  BY <1>1 DEF Plain, PC, HasRet
<1>3. Using(mem, T, ext, Places, t, conn[t].sess, Null, Null) /\ conn[t].ret = Null
  BY <1>2, UsingPlain
<1>4. UNCHANGED <<cache, lock, ext, pocket, now>>
  BY DEF Lookup
<1>5. CASE UNCHANGED mem /\ \E p \in {"ask", "new"} : Set(t, [conn[t] EXCEPT !.want = i, !.pc = p])
  <2>1. PICK p \in {"ask", "new"} : Set(t, [conn[t] EXCEPT !.want = i, !.pc = p])
    BY <1>5
  <2> DEFINE c == [conn[t] EXCEPT !.want = i, !.pc = p]
  <2>2. c \in Conns /\ c.pc = p /\ c.sess = conn[t].sess /\ c.ret = Null
    BY <1>1, <1>3 DEF Conns, PC
  <2>3. Set(t, c) /\ Kept(mem, mem')
    BY <1>5, <2>1, OldSame, OldIsKept
  <2>6. Using(mem', T, ext, Places, t, c.sess, c.ret, Null)
    BY <1>3, <1>5, <2>2
  <2> HIDE DEF c
  <2>4. c.pc \in Plain \ {"flush", "idle"} /\ ~HasRet(c) /\ ~HasSess(c)
    BY <2>2 DEF Plain, PC, HasRet, HasSess
  <2> QED BY <1>2, <1>4, <2>2, <2>3, <2>4, <2>6, PlainQuiet, ExtType, Pointers
<1>6. CASE \E e \in Find(mem, cache, i) : /\ mem' = UpRef(mem, e[2])
                                          /\ Set(t, [conn[t] EXCEPT !.want = i, !.ret = e[2], !.pc = "found"])
  <2>1. PICK e \in Find(mem, cache, i) : /\ mem' = UpRef(mem, e[2])
                                         /\ Set(t, [conn[t] EXCEPT !.want = i, !.ret = e[2], !.pc = "found"])
    BY <1>6
  <2> DEFINE s == e[2]
             c == [conn[t] EXCEPT !.want = i, !.ret = s, !.pc = "found"]
  <2>2. s \in Session /\ <<i, s>> \in T
    BY <1>1, <2>1 DEF Find, Caches
  <2>3. c \in Conns /\ c.pc = "found" /\ c.sess = conn[t].sess /\ c.ret = s
    BY <1>1, <2>2 DEF Conns, PC, SessionOrNull
  <2>4. Set(t, c) /\ mem' = UpRef(mem, s)
    BY <2>1
  <2> HIDE DEF c, s
  <2>5. mem[s].live
    BY <1>1, <1>3, <2>2, UsingFacts
  <2>6. Using(mem', T, ext, Places, t, c.sess, c.ret, Null)
    BY <1>1, <1>3, <2>2, <2>3, <2>4, <2>5, TakeRet
  <2>7. Kept(mem, mem')
    BY <1>1, <2>2, <2>4, UpRefFacts, OldIsKept
  <2>8. c.pc \in Plain \ {"flush", "idle"} /\ HasRet(c) /\ ~HasSess(c)
    BY <2>3 DEF Plain, PC, HasRet, HasSess
  <2> QED BY <1>2, <1>4, <2>2, <2>3, <2>4, <2>6, <2>7, <2>8, PlainQuiet, ExtType
<1> QED BY <1>5, <1>6 DEF Lookup, k

LEMMA AskApplicationInv == ASSUME Inv, NEW t \in Thread, AskApplication(t) PROVE Inv'
<1> DEFINE T == cache.table
<1>1. conn[t] \in Conns /\ conn[t].pc = "ask" /\ Places \in [Place -> SessionOrNull]
      /\ mem \in [Session -> Sessions]
  BY UsingNow DEF AskApplication, At
<1>2. conn[t].pc \in Plain \ {"flush"} /\ ~HasRet(conn[t])
  BY <1>1 DEF Plain, PC, HasRet
<1>3. Using(mem, T, ext, Places, t, conn[t].sess, Null, Null) /\ conn[t].ret = Null
  BY <1>2, UsingPlain
<1>4. UNCHANGED <<cache, lock, ext, pocket, now>>
  BY DEF AskApplication
<1>5. CASE Goto(t, "new") /\ UNCHANGED mem
  <2>1. "new" \in PC /\ "new" \in Plain \ {"idle", "flush"}
    BY DEF Plain, PC
  <2>2. /\ HasSess([conn[t] EXCEPT !.pc = "new"]) => conn[t].sess \in Session
        /\ HasRet([conn[t] EXCEPT !.pc = "new"]) <=> HasRet(conn[t])
    BY <1>1, <1>2, <2>1, GotoUses
  <2> QED BY <1>2, <1>4, <1>5, <2>1, <2>2, GotoStep
<1>6. CASE \E s \in ext : /\ mem' = UpRef(mem, s)
                          /\ Set(t, [conn[t] EXCEPT !.ret = s, !.pc = "store"])
  <2>1. PICK s \in ext : /\ mem' = UpRef(mem, s)
                         /\ Set(t, [conn[t] EXCEPT !.ret = s, !.pc = "store"])
    BY <1>6
  <2> DEFINE c == [conn[t] EXCEPT !.ret = s, !.pc = "store"]
  <2>2. s \in Session
    BY ExtType
  <2>3. c \in Conns /\ c.pc = "store" /\ c.sess = conn[t].sess /\ c.ret = s
    BY <1>1, <2>2 DEF Conns, PC, SessionOrNull
  <2>4. Set(t, c)
    BY <2>1
  <2> HIDE DEF c
  <2>5. mem[s].live
    BY <1>1, <1>3, <2>2, UsingFacts
  <2>6. Using(mem', T, ext, Places, t, c.sess, c.ret, Null)
    BY <1>1, <1>3, <2>1, <2>2, <2>3, <2>5, TakeRet
  <2>7. Kept(mem, mem')
    BY <1>1, <2>1, <2>2, UpRefFacts, OldIsKept
  <2>8. c.pc \in Plain \ {"flush", "idle"} /\ HasRet(c) /\ ~HasSess(c)
    BY <2>3 DEF Plain, PC, HasRet, HasSess
  <2> QED BY <1>2, <1>4, <2>2, <2>3, <2>4, <2>6, <2>7, <2>8, PlainQuiet, ExtType
<1> QED BY <1>5, <1>6 DEF AskApplication, k

LEMMA UseFoundInv == ASSUME Inv, NEW t \in Thread, UseFound(t) PROVE Inv'
<1> DEFINE T == cache.table
           s == conn[t].ret
<1>1. conn[t] \in Conns /\ conn[t].pc \in {"found", "given"} /\ Places \in [Place -> SessionOrNull]
      /\ mem \in [Session -> Sessions]
  BY UsingNow DEF UseFound, At
<1>2. conn[t].pc \in Plain \ {"flush"} /\ HasRet(conn[t])
  BY <1>1 DEF Plain, PC, HasRet
<1>3. Using(mem, T, ext, Places, t, conn[t].sess, s, Null) /\ s \in Session /\ conn[t].sess \in SessionOrNull
  BY <1>2, UsingPlain
<1>4. UNCHANGED <<cache, lock, ext, pocket, now>>
  BY DEF UseFound
<1>5. CASE Goto(t, "expired") /\ UNCHANGED mem
  <2>1. "expired" \in PC /\ "expired" \in Plain \ {"idle", "flush"}
    BY DEF Plain, PC
  <2>2. /\ HasSess([conn[t] EXCEPT !.pc = "expired"]) => conn[t].sess \in Session
        /\ HasRet([conn[t] EXCEPT !.pc = "expired"]) <=> HasRet(conn[t])
    BY <1>1, <1>2, <2>1, GotoUses
  <2> QED BY <1>2, <1>4, <1>5, <2>1, <2>2, GotoStep
<1>6. CASE /\ mem' = Free(mem, conn[t].sess)
           /\ Set(t, [conn[t] EXCEPT !.sess = s, !.ret = Null, !.hit = TRUE, !.pc = "handshake"])
  <2> DEFINE c == [conn[t] EXCEPT !.sess = s, !.ret = Null, !.hit = TRUE, !.pc = "handshake"]
  <2>1. c \in Conns /\ c.pc = "handshake" /\ c.sess = s /\ c.ret = Null
    BY <1>1, <1>3 DEF Conns, PC, SessionOrNull
  <2>2. Set(t, c)
    BY <1>6
  <2> HIDE DEF c
  <2>3. Using(mem', T, ext, Places, t, Null, s, Null)
    BY <1>1, <1>3, <1>6, DropSess
  <2>4. Using(mem', T, ext, Places, t, c.sess, c.ret, Null)
    BY <1>1, <2>1, <2>3, PassRet
  <2>5. Kept(mem, mem')
    BY <1>1, <1>3, <1>6, FreeFacts, OldIsKept
  <2>6. c.pc \in Plain \ {"flush", "idle"} /\ ~HasRet(c)
    BY <2>1 DEF Plain, PC, HasRet
  <2> QED BY <1>2, <1>3, <1>4, <2>1, <2>2, <2>4, <2>5, <2>6, PlainQuiet, ExtType, Pointers
<1> QED BY <1>5, <1>6 DEF UseFound, k

LEMMA LetGoInv ==
  ASSUME Inv, NEW t \in Thread, conn[t].pc \in {"found", "given", "release"},
         mem' = Free(mem, conn[t].ret), Set(t, [conn[t] EXCEPT !.ret = Null, !.pc = "new"]),
         UNCHANGED <<cache, lock, ext, pocket, now>>
  PROVE  Inv'
<1> DEFINE T == cache.table
           s == conn[t].ret
           c == [conn[t] EXCEPT !.ret = Null, !.pc = "new"]
<1>1. conn[t] \in Conns /\ Places \in [Place -> SessionOrNull] /\ mem \in [Session -> Sessions]
  BY UsingNow
<1>2. conn[t].pc \in Plain \ {"flush"} /\ HasRet(conn[t])
  BY DEF Plain, PC, HasRet
<1>3. Using(mem, T, ext, Places, t, conn[t].sess, s, Null) /\ s \in SessionOrNull
  BY <1>2, UsingPlain
<1>4. c \in Conns /\ c.pc = "new" /\ c.sess = conn[t].sess /\ c.ret = Null
  BY <1>1 DEF Conns, PC, SessionOrNull
<1>5. Set(t, c)
  OBVIOUS
<1> HIDE DEF c
<1>6. Using(mem', T, ext, Places, t, c.sess, c.ret, Null)
  BY <1>1, <1>3, <1>4, DropRet
<1>7. Kept(mem, mem')
  BY <1>1, <1>3, FreeFacts, OldIsKept
<1>8. c.pc \in Plain \ {"flush", "idle"} /\ ~HasRet(c) /\ ~HasSess(c)
  BY <1>4 DEF Plain, PC, HasRet, HasSess
<1> QED BY <1>2, <1>4, <1>5, <1>6, <1>7, <1>8, PlainQuiet, ExtType, Pointers

LEMMA OtherContextInv == ASSUME Inv, NEW t \in Thread, OtherContext(t) PROVE Inv'
BY LetGoInv DEF OtherContext, At, k

LEMMA ReleaseInv == ASSUME Inv, NEW t \in Thread, Release(t) PROVE Inv'
BY LetGoInv DEF Release, At, k

(* A new session takes the place of s->session.                            *)
LEMMA ReplaceInv ==
  ASSUME Inv, NEW t \in Thread, conn[t].pc \in {"new", "offered"},
         NEW i \in Id, NEW M \in New(mem, i), NEW s \in NewAddress(M), mem' = Free(M, conn[t].sess),
         Set(t, [conn[t] EXCEPT !.sess = s, !.hit = FALSE, !.pc = "handshake"]),
         UNCHANGED <<cache, lock, ext, pocket, now>>
  PROVE  Inv'
<1> DEFINE T == cache.table
           c == [conn[t] EXCEPT !.sess = s, !.hit = FALSE, !.pc = "handshake"]
<1>1. conn[t] \in Conns /\ Places \in [Place -> SessionOrNull] /\ mem \in [Session -> Sessions] /\ now \in Nat
  BY UsingNow
<1>2. conn[t].pc \in Plain \ {"flush"} /\ ~HasRet(conn[t])
  BY DEF Plain, PC, HasRet
<1>3. Using(mem, T, ext, Places, t, conn[t].sess, Null, Null) /\ conn[t].sess \in SessionOrNull /\ conn[t].ret = Null
  BY <1>2, UsingPlain
<1>4. s \in Session /\ Using(M, T, ext, Places, t, conn[t].sess, s, Null)
  BY <1>1, <1>3, NewRet
<1>5. Using(mem', T, ext, Places, t, Null, s, Null)
  BY <1>1, <1>4, DropSess
<1>6. Using(mem', T, ext, Places, t, s, Null, Null)
  BY <1>1, <1>5, PassRet
<1>7. Kept(mem, mem')
  <2>1. Sound(mem, HoldersIn(T, ext, Places))
    BY DEF Inv, CountInv, Counted
  <2>2. Kept(mem, M)
    BY <1>1, <2>1, NewKept
  <2>3. M \in [Session -> Sessions]
    BY <1>1, <1>4, UsingFacts
  <2> QED BY <1>3, <2>2, <2>3, FreeFacts, KeptOld
<1>8. c \in Conns /\ c.pc = "handshake" /\ c.sess = s /\ c.ret = Null
  BY <1>1, <1>3, <1>4 DEF Conns, PC, SessionOrNull
<1>9. Set(t, c)
  OBVIOUS
<1> HIDE DEF c
<1>10. c.pc \in Plain \ {"flush", "idle"} /\ ~HasRet(c)
  BY <1>8 DEF Plain, PC, HasRet
<1>11. Using(mem', T, ext, Places, t, c.sess, c.ret, Null)
  BY <1>6, <1>8
<1> QED BY <1>2, <1>4, <1>7, <1>8, <1>9, <1>10, <1>11, PlainQuiet, ExtType, Pointers

LEMMA NewSessionInv == ASSUME Inv, NEW t \in Thread, NewSession(t) PROVE Inv'
<1>1. PICK i \in Id : \E M \in New(mem, i) : \E s \in NewAddress(M) :
            /\ mem' = Free(M, k(t).sess)
            /\ Set(t, [k(t) EXCEPT !.sess = s, !.hit = FALSE, !.pc = "handshake"])
  BY DEF NewSession
<1>2. PICK M \in New(mem, i) : \E s \in NewAddress(M) :
            /\ mem' = Free(M, k(t).sess)
            /\ Set(t, [k(t) EXCEPT !.sess = s, !.hit = FALSE, !.pc = "handshake"])
  BY <1>1
<1>3. PICK s \in NewAddress(M) :
            /\ mem' = Free(M, conn[t].sess)
            /\ Set(t, [conn[t] EXCEPT !.sess = s, !.hit = FALSE, !.pc = "handshake"])
  BY <1>2 DEF k
<1>4. conn[t].pc \in {"new", "offered"} /\ UNCHANGED <<cache, lock, ext, pocket, now>>
  BY DEF NewSession, At
<1> QED BY <1>3, <1>4, ReplaceInv

LEMMA ServerHelloMissInv == ASSUME Inv, NEW t \in Thread, ServerHelloMiss(t) PROVE Inv'
<1>1. PICK i \in FreshId : \E M \in New(mem, i) : \E s \in NewAddress(M) :
            /\ mem' = Free(M, k(t).sess)
            /\ Set(t, [k(t) EXCEPT !.sess = s, !.hit = FALSE, !.pc = "handshake"])
  BY DEF ServerHelloMiss
<1>2. PICK M \in New(mem, i) : \E s \in NewAddress(M) :
            /\ mem' = Free(M, k(t).sess)
            /\ Set(t, [k(t) EXCEPT !.sess = s, !.hit = FALSE, !.pc = "handshake"])
  BY <1>1
<1>3. PICK s \in NewAddress(M) :
            /\ mem' = Free(M, conn[t].sess)
            /\ Set(t, [conn[t] EXCEPT !.sess = s, !.hit = FALSE, !.pc = "handshake"])
  BY <1>2 DEF k
<1>4. conn[t].pc \in {"new", "offered"} /\ UNCHANGED <<cache, lock, ext, pocket, now>> /\ i \in Id
  BY DEF ServerHelloMiss, At, FreshId
<1> QED BY <1>3, <1>4, ReplaceInv

LEMMA NoSessionInv == ASSUME Inv, NEW t \in Thread, NoSession(t) PROVE Inv'
<1> DEFINE T == cache.table
<1>1. conn[t] \in Conns /\ conn[t].pc \in {"new", "offered"} /\ Places \in [Place -> SessionOrNull]
      /\ mem \in [Session -> Sessions] /\ UNCHANGED <<cache, lock, ext, pocket, now>>
  BY UsingNow DEF NoSession, At
<1>2. conn[t].pc \in Plain \ {"flush"} /\ ~HasRet(conn[t])
  BY <1>1 DEF Plain, PC, HasRet
<1>3. Using(mem, T, ext, Places, t, conn[t].sess, Null, Null) /\ conn[t].ret = Null /\ conn[t].sess \in SessionOrNull
  BY <1>2, UsingPlain
<1>4. CASE Goto(t, "close") /\ UNCHANGED mem
  <2>1. "close" \in PC /\ "close" \in Plain \ {"idle", "flush"}
    BY DEF Plain, PC
  <2>2. /\ HasSess([conn[t] EXCEPT !.pc = "close"]) => conn[t].sess \in Session
        /\ HasRet([conn[t] EXCEPT !.pc = "close"]) <=> HasRet(conn[t])
    BY <1>1, <1>2, <2>1, GotoUses
  <2> QED BY <1>1, <1>2, <1>4, <2>1, <2>2, GotoStep
<1>5. CASE mem' = Free(mem, conn[t].sess) /\ Set(t, [conn[t] EXCEPT !.sess = Null, !.pc = "close"])
  <2> DEFINE c == [conn[t] EXCEPT !.sess = Null, !.pc = "close"]
  <2>1. c \in Conns /\ c.pc = "close" /\ c.sess = Null /\ c.ret = Null
    BY <1>1, <1>3 DEF Conns, PC, SessionOrNull
  <2>2. Set(t, c)
    BY <1>5
  <2> HIDE DEF c
  <2>3. Using(mem', T, ext, Places, t, c.sess, c.ret, Null)
    BY <1>1, <1>3, <1>5, <2>1, DropSess
  <2>4. Kept(mem, mem')
    BY <1>1, <1>3, <1>5, FreeFacts, OldIsKept
  <2>5. c.pc \in Plain \ {"flush", "idle"} /\ ~HasRet(c) /\ ~HasSess(c)
    BY <2>1 DEF Plain, PC, HasRet, HasSess
  <2> QED BY <1>1, <1>2, <2>1, <2>2, <2>3, <2>4, <2>5, PlainQuiet, ExtType, Pointers
<1> QED BY <1>4, <1>5 DEF NoSession, k

LEMMA CloseInv == ASSUME Inv, NEW t \in Thread, Close(t) PROVE Inv'
<1> DEFINE T == cache.table
<1>1. conn[t] \in Conns /\ conn[t].pc \in {"up", "failed", "close"} /\ Places \in [Place -> SessionOrNull]
      /\ mem \in [Session -> Sessions] /\ UNCHANGED <<cache, lock, ext, pocket, now>>
      /\ mem' = Free(mem, conn[t].sess) /\ Set(t, NoConn)
  BY UsingNow DEF Close, At, k
<1>2. conn[t].pc \in Plain \ {"flush"} /\ ~HasRet(conn[t])
  BY <1>1 DEF Plain, PC, HasRet
<1>3. Using(mem, T, ext, Places, t, conn[t].sess, Null, Null) /\ conn[t].ret = Null /\ conn[t].sess \in SessionOrNull
  BY <1>2, UsingPlain
<1>4. NoConn \in Conns /\ NoConn.pc = "idle" /\ NoConn.sess = Null /\ NoConn.ret = Null
  BY DEF NoConn, Conns, PC, SessionOrNull
<1>5. Using(mem', T, ext, Places, t, NoConn.sess, NoConn.ret, Null)
  BY <1>1, <1>3, <1>4, DropSess
<1>6. Kept(mem, mem')
  BY <1>1, <1>3, FreeFacts, OldIsKept
<1>7. NoConn.pc \in Plain \ {"flush"} /\ ~HasRet(NoConn) /\ ~HasSess(NoConn)
  BY <1>4 DEF Plain, PC, HasRet, HasSess
<1> QED BY <1>1, <1>2, <1>4, <1>5, <1>6, <1>7, PlainQuiet, ExtType, Pointers

LEMMA NotifyInv == ASSUME Inv, NEW t \in Thread, Notify(t) PROVE Inv'
<1> DEFINE T == cache.table
           s == conn[t].sess
           c == [conn[t] EXCEPT !.pc = "up"]
<1>1. conn[t] \in Conns /\ conn[t].pc = "notify" /\ Places \in [Place -> SessionOrNull]
      /\ mem \in [Session -> Sessions] /\ UNCHANGED <<cache, lock, pocket, now>> /\ Set(t, c)
  BY UsingNow DEF Notify, At, k, Goto
<1>2. conn[t].pc \in Plain \ {"flush"} /\ ~HasRet(conn[t]) /\ HasSess(conn[t])
  BY <1>1 DEF Plain, PC, HasRet, HasSess
<1>3. Using(mem, T, ext, Places, t, s, Null, Null) /\ conn[t].ret = Null /\ s \in Session
  BY <1>2, UsingPlain
<1>4. c \in Conns /\ c.pc = "up" /\ c.sess = s /\ c.ret = Null
  BY <1>1, <1>3 DEF Conns, PC
<1> HIDE DEF c
<1>5. c.pc \in Plain \ {"flush", "idle"} /\ ~HasRet(c)
  BY <1>4 DEF Plain, PC, HasRet
<1>6. CASE UNCHANGED <<mem, ext>>
  <2>1. Using(mem', T, ext', Places, t, c.sess, c.ret, Null) /\ Kept(mem, mem')
    BY <1>3, <1>4, <1>6, OldSame, OldIsKept
  <2> QED BY <1>1, <1>2, <1>3, <1>4, <1>5, <1>6, <2>1, PlainQuiet, ExtType, Pointers
<1>7. CASE s \notin ext /\ mem' = UpRef(mem, s) /\ ext' = ext \cup {s}
  <2> DEFINE Q == Moved(Places, t, s, Null, Null)
  <2>1. Counted(mem, T, ext, Q) /\ s \in SessionOrNull /\ Null \in SessionOrNull
    BY <1>3 DEF Using
  <2>2. mem[s].live
    BY <1>1, <1>3, UsingFacts
  <2> HIDE DEF Q
  <2>3. Counted(mem', T, ext', Q)
    BY <1>3, <1>7, <2>1, <2>2, TakeExt
  <2>4. Using(mem', T, ext', Places, t, c.sess, c.ret, Null)
    BY <1>4, <2>1, <2>3 DEF Using, Q
  <2>5. Kept(mem, mem')
    BY <1>1, <1>3, <1>7, UpRefFacts, OldIsKept
  <2>6. ext' \in SUBSET Session
    BY <1>3, <1>7, ExtType
  <2> QED BY <1>1, <1>2, <1>3, <1>4, <1>5, <2>4, <2>5, <2>6, PlainQuiet, Pointers
<1> QED BY <1>6, <1>7 DEF Notify, k

(* The pockets of the application.                                         *)
LEMMA PocketStep ==
  ASSUME Inv, UNCHANGED <<cache, lock, conn, ext, now>>, pocket' \in SessionOrNull,
         NEW Q, Puts(Places, Q, <<"pocket", Null>>, pocket'),
         Counted(mem', cache.table, ext, Q), Kept(mem, mem')
  PROVE  Inv'
<1>1. conn \in [Thread -> Conns] /\ pocket \in SessionOrNull /\ cache \in Caches
  BY DEF Inv, Types
<1>2. Places' = Q
  <2>1. /\ Places \in [Place -> SessionOrNull] /\ <<"pocket", Null>> \in Place
        /\ \A f \in Fields, t \in Thread : Places[<<f, t>>] = Use(conn[t], f)
    BY <1>1, PlacesType DEF Places
  <2>2. Q \in [Place -> SessionOrNull]
        /\ \A q \in Place : Q[q] = IF q = <<"pocket", Null>> THEN pocket' ELSE Places[q]
    BY <2>1, PutsFacts
  <2>3. /\ PlacesOf(conn, pocket') \in [Place -> SessionOrNull]
        /\ PlacesOf(conn, pocket')[<<"pocket", Null>>] = pocket'
        /\ \A f \in Fields, t \in Thread : PlacesOf(conn, pocket')[<<f, t>>] = Use(conn[t], f)
    BY <1>1, PlacesType
  <2>4. \A p \in Place : p = <<"pocket", Null>>
                         \/ (p # <<"pocket", Null>> /\ \E f \in Fields, u \in Thread : p = <<f, u>>)
    BY DEF Place, Fields
  <2>5. \A p \in Place : PlacesOf(conn, pocket')[p] = Q[p]
    BY <2>1, <2>2, <2>3, <2>4
  <2>6. PlacesOf(conn, pocket') = Q
    BY <2>2, <2>3, <2>5, SamePlaces
  <2> QED BY <2>6 DEF Places
<1>3. /\ Counted(mem, cache.table, ext, Places)
      /\ Unique(mem, cache.table) /\ (NoRenewal => Filed(mem, cache.table)) /\ Linked(mem, cache)
  BY DEF Inv, CountInv, UniqueInv, FiledInv, LinkedInv
<1>4. /\ Unique(mem', cache.table) /\ (NoRenewal => Filed(mem', cache.table)) /\ Linked(mem', cache)
  BY <1>1, <1>3, QuietCache
<1> QED BY <1>2, <1>4 DEF Inv, Types, CountInv, ConnInv, UniqueInv, FiledInv, LinkedInv

LEMMA PocketFacts ==
  ASSUME Inv
  PROVE  /\ Places \in [Place -> SessionOrNull] /\ <<"pocket", Null>> \in Place
         /\ Places[<<"pocket", Null>>] = pocket /\ pocket \in SessionOrNull
         /\ Counted(mem, cache.table, ext, Places) /\ mem \in [Session -> Sessions]
<1>1. conn \in [Thread -> Conns] /\ pocket \in SessionOrNull /\ Counted(mem, cache.table, ext, Places)
  BY DEF Inv, Types, CountInv
<1>2. mem \in [Session -> Sessions]
  BY <1>1 DEF Counted, Sound
<1> QED BY <1>1, <1>2, PlacesType DEF Places

LEMMA GetSessionInv == ASSUME Inv, NEW t \in Thread, GetSession(t) PROVE Inv'
<1> DEFINE s == conn[t].sess
           Q == [Places EXCEPT ![<<"pocket", Null>>] = s]
<1>1. conn[t].pc = "up" /\ pocket = Null /\ mem' = UpRef(mem, s) /\ pocket' = s
      /\ UNCHANGED <<cache, lock, conn, ext, now>>
  BY DEF GetSession, At, k
<1>2. conn[t].pc \in Plain /\ HasSess(conn[t])
  BY <1>1 DEF Plain, PC, HasSess
<1>3. Using(mem, cache.table, ext, Places, t, s, conn[t].ret, Null) /\ s \in Session
  BY <1>2, UsingPlain
<1>4. mem[s].live
  BY <1>3, UsingFacts, PocketFacts
<1>5. Puts(Places, Q, <<"pocket", Null>>, s)
  BY DEF Puts
<1> HIDE DEF Q
<1>6. Counted(mem', cache.table, ext, Q)
  BY <1>1, <1>3, <1>4, <1>5, PocketFacts, TakePlace
<1>7. Kept(mem, mem')
  BY <1>1, <1>3, PocketFacts, UpRefFacts, OldIsKept
<1>8. s \in SessionOrNull
  BY <1>3 DEF SessionOrNull
<1> QED BY <1>1, <1>5, <1>6, <1>7, <1>8, PocketStep

LEMMA DropSessionInv == ASSUME Inv, DropSession PROVE Inv'
<1> DEFINE Q == [Places EXCEPT ![<<"pocket", Null>>] = Null]
<1>1. mem' = Free(mem, pocket) /\ pocket' = Null /\ UNCHANGED <<cache, lock, conn, ext, now>>
  BY DEF DropSession
<1>2. Puts(Places, Q, <<"pocket", Null>>, Null)
  BY DEF Puts
<1> HIDE DEF Q
<1>3. Counted(Free(mem, Places[<<"pocket", Null>>]), cache.table, ext, Q)
  BY <1>2, PocketFacts, DropPlace
<1>4. Counted(mem', cache.table, ext, Q)
  BY <1>1, <1>3, PocketFacts
<1>5. Kept(mem, mem')
  BY <1>1, PocketFacts, FreeFacts, OldIsKept
<1>6. Null \in SessionOrNull
  BY DEF SessionOrNull
<1> QED BY <1>1, <1>2, <1>4, <1>5, <1>6, PocketStep

LEMMA StoreGivenInv == ASSUME Inv, NEW t \in Thread, StoreGiven(t) PROVE Inv'
<1> DEFINE T == cache.table
           s == conn[t].ret
           c == [conn[t] EXCEPT !.pc = "add", !.back = "given"]
<1>1. conn[t] \in Conns /\ conn[t].pc = "store" /\ Places \in [Place -> SessionOrNull]
      /\ mem \in [Session -> Sessions] /\ UNCHANGED <<cache, lock, ext, pocket, now>> /\ Set(t, c)
      /\ mem' = UpRef(mem, s) /\ ConnOK(conn[t], lock = t) /\ lock \in Thread \cup {Null}
  BY UsingNow DEF StoreGiven, At, k, Inv, Types
<1>2. conn[t].pc \in Plain \ {"flush"} /\ HasRet(conn[t])
  BY <1>1 DEF Plain, PC, HasRet
<1>3. Using(mem, T, ext, Places, t, conn[t].sess, s, Null) /\ s \in Session
  BY <1>2, UsingPlain
<1>4. c \in Conns /\ c.pc = "add" /\ c.back = "given" /\ c.sess = conn[t].sess /\ c.ret = s
  BY <1>1, <1>3 DEF Conns, PC
<1> HIDE DEF c
<1>5. mem[s].live
  BY <1>1, <1>3, UsingFacts
<1>6. Using(mem', T, ext, Places, t, c.sess, s, s)
  BY <1>1, <1>3, <1>4, <1>5, TakeMore
<1>7. Use(c, "sess") = c.sess /\ Use(c, "ret") = s /\ Use(c, "more") = s
  BY <1>4, UseFacts
<1>8. ConnOK(c, lock = t)
  BY <1>1, <1>3, <1>4 DEF ConnOK, HasRet, HasSess
<1>9. Kept(mem, mem')
  BY <1>1, <1>3, UpRefFacts, OldIsKept
<1>10. Using(mem', T, ext, Places, t, Use(c, "sess"), Use(c, "ret"), Use(c, "more"))
  BY <1>6, <1>7
<1> QED BY <1>1, <1>4, <1>8, <1>9, <1>10, QuietStep, ExtType

LEMMA UpdateCacheInv == ASSUME Inv, NEW t \in Thread, UpdateCache(t) PROVE Inv'
<1> DEFINE T == cache.table
           s == conn[t].sess
<1>1. conn[t] \in Conns /\ conn[t].pc = "handshake" /\ Places \in [Place -> SessionOrNull]
      /\ mem \in [Session -> Sessions] /\ UNCHANGED <<cache, lock, ext, pocket, now>>
      /\ ConnOK(conn[t], lock = t) /\ lock \in Thread \cup {Null}
  BY UsingNow DEF UpdateCache, At, Inv, Types
<1>2. conn[t].pc \in Plain \ {"flush"} /\ ~HasRet(conn[t]) /\ HasSess(conn[t])
  BY <1>1 DEF Plain, PC, HasRet, HasSess
<1>3. Using(mem, T, ext, Places, t, s, Null, Null) /\ s \in Session /\ conn[t].ret = Null
  BY <1>2, UsingPlain
<1>4. CASE Goto(t, "up") /\ UNCHANGED mem
  <2>1. "up" \in PC /\ "up" \in Plain \ {"idle", "flush"}
    BY DEF Plain, PC
  <2>2. /\ HasSess([conn[t] EXCEPT !.pc = "up"]) => conn[t].sess \in Session
        /\ HasRet([conn[t] EXCEPT !.pc = "up"]) <=> HasRet(conn[t])
    BY <1>1, <1>2, <1>3, <2>1, GotoUses
  <2> QED BY <1>1, <1>2, <1>4, <2>1, <2>2, GotoStep
<1>5. CASE mem' = UpRef(mem, s) /\ Set(t, [conn[t] EXCEPT !.pc = "add", !.ret = s, !.back = "notify"])
  <2> DEFINE c == [conn[t] EXCEPT !.pc = "add", !.ret = s, !.back = "notify"]
  <2>1. c \in Conns /\ c.pc = "add" /\ c.back = "notify" /\ c.sess = s /\ c.ret = s
    BY <1>1, <1>3 DEF Conns, PC, SessionOrNull
  <2>2. Set(t, c)
    BY <1>5
  <2> HIDE DEF c
  <2>3. mem[s].live
    BY <1>1, <1>3, UsingFacts
  <2>4. Using(mem', T, ext, Places, t, s, s, Null)
    BY <1>1, <1>3, <1>5, <2>3, TakeRet
  <2>5. Use(c, "sess") = s /\ Use(c, "ret") = s /\ Use(c, "more") = Null
    BY <2>1, UseFacts
  <2>6. ConnOK(c, lock = t)
    BY <1>1, <1>3, <2>1 DEF ConnOK, HasRet, HasSess
  <2>7. Kept(mem, mem')
    BY <1>1, <1>3, <1>5, UpRefFacts, OldIsKept
  <2>8. Using(mem', T, ext, Places, t, Use(c, "sess"), Use(c, "ret"), Use(c, "more"))
    BY <2>4, <2>5
  <2> QED BY <1>1, <2>1, <2>2, <2>6, <2>7, <2>8, QuietStep, ExtType
<1> QED BY <1>4, <1>5 DEF UpdateCache, k

LEMMA EvictDoneInv == ASSUME Inv, NEW t \in Thread, EvictDone(t) PROVE Inv'
<1> DEFINE T == cache.table
           s == conn[t].ret
           c == [conn[t] EXCEPT !.pc = conn[t].back, !.ret = IF conn[t].back = "given" THEN s ELSE Null]
<1>1. conn[t] \in Conns /\ conn[t].pc = "evict" /\ Places \in [Place -> SessionOrNull]
      /\ mem \in [Session -> Sessions] /\ UNCHANGED <<mem, cache, ext, pocket, now>> /\ Set(t, c)
      /\ lock' = Null /\ ConnOK(conn[t], lock = t)
      /\ Using(mem, T, ext, Places, t, Use(conn[t], "sess"), Use(conn[t], "ret"), Use(conn[t], "more"))
  BY UsingNow DEF EvictDone, At, k
<1>2. s \in Session /\ lock = t
      /\ (conn[t].back = "given" \/ (conn[t].back = "notify" /\ conn[t].sess = s))
  BY <1>1 DEF ConnOK, HasRet
<1>3. Using(mem, T, ext, Places, t, conn[t].sess, Null, IF conn[t].back = "given" THEN s ELSE Null)
  <2>1. Use(conn[t], "sess") = conn[t].sess /\ Use(conn[t], "ret") = Null
        /\ Use(conn[t], "more") = IF conn[t].back = "given" THEN s ELSE Null
    BY <1>1, UseFacts
  <2> QED BY <1>1, <2>1
<1>4. c \in Conns /\ c.pc = conn[t].back /\ c.sess = conn[t].sess
      /\ c.ret = IF conn[t].back = "given" THEN s ELSE Null
  BY <1>1, <1>2 DEF Conns, PC, SessionOrNull
<1> HIDE DEF c
<1>5. Using(mem, T, ext, Places, t, c.sess, c.ret, Null)
  <2> DEFINE m == IF conn[t].back = "given" THEN s ELSE Null
  <2>1. c.ret = m /\ c.sess = conn[t].sess /\ Using(mem, T, ext, Places, t, conn[t].sess, Null, m)
    BY <1>3, <1>4
  <2> HIDE DEF m
  <2> QED BY <1>1, <2>1, PassMore
<1>6. c.pc \in Plain
  BY <1>2, <1>4 DEF Plain, PC
<1>7. Use(c, "sess") = c.sess /\ Use(c, "ret") = c.ret /\ Use(c, "more") = Null
  BY <1>6, PlainUse
<1>8. ConnOK(c, lock' = t)
  BY <1>1, <1>2, <1>4, Pointers DEF ConnOK, HasRet, HasSess
<1>9. Kept(mem, mem')
  BY <1>1, OldSame, OldIsKept
<1>10. Using(mem', T, ext', Places, t, Use(c, "sess"), Use(c, "ret"), Use(c, "more"))
  BY <1>1, <1>5, <1>7
<1>11. ext' \in SUBSET Session /\ lock' \in Thread \cup {Null} /\ \A u \in Thread : u # t => (lock' = u <=> lock = u)
  BY <1>1, <1>2, ExtType, Pointers
<1> QED BY <1>1, <1>4, <1>8, <1>9, <1>10, <1>11, QuietStep

-----------------------------------------------------------------------------
(* The rest of remove_session_lock.                                         *)
Told(M, s) == [M EXCEPT ![s].dead = TRUE]
Half(M, s) == IF s \in ext THEN Free(Told(M, s), s) ELSE Told(M, s)

LEMMA RevokedIs == \A M, s : Revoked(M, s) = Free(Half(M, s), s)
BY DEF Revoked, Half, Told

LEMMA ToldFacts ==
  ASSUME NEW M, NEW T, NEW E, NEW P, Counted(M, T, E, P), NEW s \in Session, M[s].live
  PROVE  /\ Counted(Told(M, s), T, E, P) /\ Old(M, Told(M, s)) /\ Told(M, s) \in [Session -> Sessions]
         /\ \A x \in Session : x # s => Told(M, s)[x] = M[x]
<1>1. M \in [Session -> Sessions] /\ \A x \in Session : M[x].live => M[x].id \in Id
  BY DEF Counted, Sound
<1>2. Told(M, s) = [M EXCEPT ![s] = [M[s] EXCEPT !.dead = TRUE]]
  BY DEF Told
<1>3. M[s] \in Sessions /\ [M[s] EXCEPT !.dead = TRUE] \in Sessions
  BY <1>1 DEF Sessions
<1>4. Told(M, s) \in [Session -> Sessions]
  BY <1>1, <1>2, <1>3
<1>5. \A x \in Session : x # s => Told(M, s)[x] = M[x]
  BY <1>1, <1>2
<1>6. Told(M, s)[s] = [M[s] EXCEPT !.dead = TRUE]
  BY <1>1, <1>2
<1>7. /\ Told(M, s)[s].live = M[s].live /\ Told(M, s)[s].refs = M[s].refs /\ Told(M, s)[s].id = M[s].id
      /\ Told(M, s)[s].prev = M[s].prev /\ Told(M, s)[s].next = M[s].next
  BY <1>3, <1>6 DEF Sessions
<1>8. \A x \in Session : /\ Told(M, s)[x].live = M[x].live /\ Told(M, s)[x].refs = M[x].refs
                         /\ M[x].live => Told(M, s)[x].id \in Id
                         /\ ~M[x].live => Told(M, s)[x] = M[x]
  BY <1>1, <1>5, <1>7
<1>9. Counted(Told(M, s), T, E, P)
  BY <1>4, <1>8, CountedFields
<1>10. Old(M, Told(M, s))
  <2>1. ASSUME NEW x \in Session, Told(M, s)[x].live
        PROVE  /\ M[x].live /\ Told(M, s)[x].id = M[x].id /\ Told(M, s)[x].prev = M[x].prev
               /\ Told(M, s)[x].next = M[x].next
    <3>1. CASE x = s
      BY <3>1, <1>7
    <3>2. CASE x # s
      <4>1. Told(M, s)[x] = M[x]
        BY <1>5, <3>2
      <4> QED BY <4>1, <2>1
    <3> QED BY <3>1, <3>2
  <2> QED BY <2>1 DEF Old
<1> QED BY <1>4, <1>5, <1>9, <1>10

LEMMA HalfFacts ==
  ASSUME NEW M, NEW T, NEW P, Counted(M, T, ext, P), NEW s \in Session, M[s].live
  PROVE  Counted(Half(M, s), T, Dropped(s), P) /\ Old(M, Half(M, s)) /\ Half(M, s) \in [Session -> Sessions]
<1>1. Counted(Told(M, s), T, ext, P) /\ Old(M, Told(M, s)) /\ Told(M, s) \in [Session -> Sessions]
  BY ToldFacts
<1>2. CASE s \in ext
  <2>1. Counted(Free(Told(M, s), s), T, ext \ {s}, P)
    BY <1>1, <1>2, DropExt
  <2>2. s \in SessionOrNull
    BY DEF SessionOrNull
  <2>3. Old(Told(M, s), Free(Told(M, s), s))
    BY <1>1, <2>2, FreeFacts
  <2>4. Half(M, s) = Free(Told(M, s), s) /\ Dropped(s) = ext \ {s}
    BY <1>2 DEF Half, Dropped
  <2>5. Half(M, s) \in [Session -> Sessions]
    BY <2>1, <2>4 DEF Counted, Sound
  <2> QED BY <1>1, <2>1, <2>3, <2>4, <2>5, OldOld
<1>3. CASE s \notin ext
  <2>1. Half(M, s) = Told(M, s) /\ Dropped(s) = ext
    BY <1>3 DEF Half, Dropped
  <2> QED BY <1>1, <2>1
<1> QED BY <1>2, <1>3

LEMMA RevokeInv == ASSUME Inv, NEW t \in Thread, Revoke(t) PROVE Inv'
<1> DEFINE T == cache.table
           s == conn[t].ret
           c == [conn[t] EXCEPT !.pc = conn[t].back, !.ret = IF conn[t].back = "release" THEN s ELSE Null]
           m == IF conn[t].back = "release" THEN s ELSE Null
           H == Half(mem, s)
<1>1. conn[t] \in Conns /\ conn[t].pc = "unlinked" /\ Places \in [Place -> SessionOrNull]
      /\ UNCHANGED <<cache, lock, pocket, now>> /\ Set(t, c)
      /\ ConnOK(conn[t], lock = t) /\ mem' = Revoked(mem, s) /\ ext' = Dropped(s)
      /\ Using(mem, T, ext, Places, t, Use(conn[t], "sess"), Use(conn[t], "ret"), Use(conn[t], "more"))
  BY UsingNow DEF Revoke, At, k
<1>2. s \in Session
      /\ (conn[t].back = "release" \/ (conn[t].back = "failed" /\ conn[t].sess = s))
  BY <1>1 DEF ConnOK, HasRet
<1>3. Using(mem, T, ext, Places, t, conn[t].sess, s, m)
  <2>1. Use(conn[t], "sess") = conn[t].sess /\ Use(conn[t], "ret") = s /\ Use(conn[t], "more") = m
    BY <1>1, UseFacts
  <2> QED BY <1>1, <2>1
<1>4. c \in Conns /\ c.pc = conn[t].back /\ c.sess = conn[t].sess /\ c.ret = m
  BY <1>1, <1>2 DEF Conns, PC, SessionOrNull
<1> HIDE DEF c
<1>5. mem[s].live /\ conn[t].sess \in SessionOrNull /\ m \in SessionOrNull /\ s \in SessionOrNull
  BY <1>1, <1>2, <1>3, UsingFacts
<1> DEFINE Q == Moved(Places, t, conn[t].sess, s, m)
<1>6. Counted(mem, T, ext, Q)
  BY <1>3 DEF Using
<1> HIDE DEF Q
<1>7. Counted(H, T, Dropped(s), Q) /\ Old(mem, H) /\ H \in [Session -> Sessions]
  BY <1>2, <1>5, <1>6, HalfFacts
<1> HIDE DEF H
<1>8. Using(H, T, ext', Places, t, conn[t].sess, s, m)
  BY <1>1, <1>5, <1>7 DEF Using, Q
<1>9. mem' = Free(H, s)
  BY <1>1, RevokedIs DEF H
<1>10. Using(mem', T, ext', Places, t, c.sess, c.ret, Null)
  <2>1. CASE conn[t].back = "release"
    <3>1. m = s
      BY <2>1
    <3> QED BY <1>1, <1>4, <1>8, <1>9, <3>1, DropMore
  <2>2. CASE conn[t].back = "failed"
    <3>1. m = Null
      BY <2>2
    <3> QED BY <1>1, <1>4, <1>8, <1>9, <3>1, DropRet
  <2> QED BY <1>2, <2>1, <2>2
<1>11. c.pc \in Plain
  BY <1>2, <1>4 DEF Plain, PC
<1>12. Use(c, "sess") = c.sess /\ Use(c, "ret") = c.ret /\ Use(c, "more") = Null
  BY <1>11, PlainUse
<1>13. ConnOK(c, lock = t)
  BY <1>1, <1>2, <1>4, Pointers DEF ConnOK, HasRet, HasSess
<1>14. Kept(mem, mem')
  BY <1>5, <1>7, <1>9, FreeFacts, OldOld, OldIsKept
<1>15. Using(mem', T, ext', Places, t, Use(c, "sess"), Use(c, "ret"), Use(c, "more"))
  BY <1>10, <1>12
<1>16. ext' \in SUBSET Session /\ lock \in Thread \cup {Null}
  BY <1>1, ExtType DEF Dropped, Inv, Types
<1> QED BY <1>1, <1>4, <1>13, <1>14, <1>15, <1>16, QuietStep

LEMMA ServerHelloHitInv == ASSUME Inv, NEW t \in Thread, ServerHelloHit(t) PROVE Inv'
<1> DEFINE T == cache.table
           s == conn[t].sess
           c == [conn[t] EXCEPT !.hit = TRUE, !.pc = "handshake"]
<1>1. conn[t] \in Conns /\ conn[t].pc = "offered" /\ Places \in [Place -> SessionOrNull]
      /\ mem \in [Session -> Sessions] /\ UNCHANGED <<cache, lock, ext, pocket, now>> /\ Set(t, c)
      /\ ConnOK(conn[t], lock = t) /\ lock \in Thread \cup {Null} /\ cache \in Caches
  BY UsingNow DEF ServerHelloHit, At, k, Inv, Types
<1>2. conn[t].pc \in Plain \ {"flush"} /\ ~HasRet(conn[t]) /\ HasSess(conn[t])
  BY <1>1 DEF Plain, PC, HasRet, HasSess
<1>3. Using(mem, T, ext, Places, t, s, Null, Null) /\ s \in Session /\ conn[t].ret = Null
  BY <1>2, UsingPlain
<1>4. c \in Conns /\ c.pc = "handshake" /\ c.sess = s /\ c.ret = Null
  BY <1>1, <1>3 DEF Conns, PC
<1> HIDE DEF c
<1>5. c.pc \in Plain \ {"flush", "idle"} /\ ~HasRet(c)
  BY <1>4 DEF Plain, PC, HasRet
<1>6. CASE UNCHANGED mem
  <2>1. Using(mem', T, ext, Places, t, c.sess, c.ret, Null) /\ Kept(mem, mem')
    BY <1>3, <1>4, <1>6, OldSame, OldIsKept
  <2> QED BY <1>1, <1>2, <1>3, <1>4, <1>5, <2>1, PlainQuiet, ExtType, Pointers
<1>7. CASE "renew" \in Features /\ \E i \in FreshId : mem' = [mem EXCEPT ![s].id = i]
  <2>1. PICK i \in FreshId : mem' = [mem EXCEPT ![s].id = i]
    BY <1>7
  <2>2. i \in Id /\ \A x \in Session : mem[x].id # i
    BY DEF FreshId
  <2>3. mem[s].live
    BY <1>1, <1>3, UsingFacts
  <2>4. mem[s] \in Sessions /\ [mem[s] EXCEPT !.id = i] \in Sessions
    BY <1>1, <1>3, <2>2 DEF Sessions
  <2>5. /\ mem' \in [Session -> Sessions] /\ mem'[s] = [mem[s] EXCEPT !.id = i]
        /\ \A x \in Session : x # s => mem'[x] = mem[x]
    BY <1>1, <1>3, <2>1, <2>4
  <2>6. /\ mem'[s].live = mem[s].live /\ mem'[s].refs = mem[s].refs /\ mem'[s].id = i
        /\ mem'[s].prev = mem[s].prev /\ mem'[s].next = mem[s].next
    BY <2>4, <2>5 DEF Sessions
  <2> DEFINE Q == Moved(Places, t, s, Null, Null)
  <2>7. Counted(mem, T, ext, Q) /\ s \in SessionOrNull /\ Null \in SessionOrNull
    BY <1>3 DEF Using
  <2> HIDE DEF Q
  <2>8. \A x \in Session : mem[x].live => mem[x].id \in Id
    BY <2>7 DEF Counted, Sound
  <2>9. \A x \in Session : /\ mem'[x].live = mem[x].live /\ mem'[x].refs = mem[x].refs
                           /\ mem[x].live => mem'[x].id \in Id
                           /\ ~mem[x].live => mem'[x] = mem[x]
    BY <2>2, <2>3, <2>5, <2>6, <2>8
  <2>10. Counted(mem', T, ext, Q)
    BY <2>5, <2>7, <2>9, CountedFields
  <2>11. Using(mem', T, ext, Places, t, s, Null, Null)
    BY <2>7, <2>10 DEF Using, Q
  <2>12. UniqueInv'
    <3>1. Unique(mem, T) /\ \A e \in T : e[1] \in Id /\ e[2] \in Session /\ e = <<e[1], e[2]>>
      BY <1>1 DEF Inv, UniqueInv, Caches
    <3>2. ASSUME NEW e \in T, NEW f \in T, e[1] = f[1], mem'[e[2]].id = e[1], mem'[f[2]].id = f[1]
          PROVE  e = f
      <4>1. CASE e[2] = s /\ f[2] = s
        BY <3>1, <3>2, <4>1
      <4>2. CASE e[2] = s /\ f[2] # s
        <5>1. mem'[f[2]] = mem[f[2]] /\ f[1] = i
          BY <3>1, <3>2, <4>2, <2>5, <2>6
        <5> QED BY <5>1, <3>1, <3>2, <2>2
      <4>3. CASE e[2] # s /\ f[2] = s
        <5>1. mem'[e[2]] = mem[e[2]] /\ e[1] = i
          BY <3>1, <3>2, <4>3, <2>5, <2>6
        <5> QED BY <5>1, <3>1, <3>2, <2>2
      <4>4. CASE e[2] # s /\ f[2] # s
        <5>1. mem'[e[2]] = mem[e[2]] /\ mem'[f[2]] = mem[f[2]]
          BY <3>1, <4>4, <2>5
        <5> QED BY <5>1, <3>1, <3>2 DEF Unique
      <4> QED BY <4>1, <4>2, <4>3, <4>4
    <3> QED BY <1>1, <3>2 DEF UniqueInv, Unique
  <2>13. FiledInv'
    BY <1>7 DEF FiledInv, NoRenewal
  <2>14. \A x \in Session : mem'[x].prev = mem[x].prev /\ mem'[x].next = mem[x].next
    BY <2>5, <2>6
  <2>15. LinkedInv'
    <3>1. Linked(mem, cache)
      BY DEF Inv, LinkedInv
    <3>2. PICK q : /\ IsList(q, mem, cache) /\ Elements(q) \subseteq Cached(cache)
                   /\ NoRenewal => Elements(q) = Cached(cache)
      BY <3>1 DEF Linked
    <3>3. \A j \in 1..Len(q) : q[j] \in Session
      BY <1>1, <3>2, ListElements
    <3>4. IsList(q, mem', cache)
      BY <2>14, <3>2, <3>3 DEF IsList
    <3>5. Linked(mem', cache)
      BY <3>2, <3>4 DEF Linked
    <3> QED BY <1>1, <3>5 DEF LinkedInv
  <2>16. ConnOK(c, lock = t)
    BY <1>1, <1>3, <1>4, <1>5, Pointers DEF ConnOK, HasSess
  <2>17. Use(c, "sess") = s /\ Use(c, "ret") = Null /\ Use(c, "more") = Null
    BY <1>4, <1>5, PlainUse
  <2>18. Using(mem', cache'.table, ext', Places, t, Use(c, "sess"), Use(c, "ret"), Use(c, "more"))
    BY <1>1, <2>11, <2>17
  <2> QED BY <1>1, <1>4, <2>12, <2>13, <2>15, <2>16, <2>18, StepOf, ExtType
<1> QED BY <1>6, <1>7 DEF ServerHelloHit, k

-----------------------------------------------------------------------------
(* The steps that change the cache.                                         *)

LEMMA RemoveAny ==
  ASSUME NEW q, NEW M \in [Session -> Sessions], NEW C \in Caches, IsList(q, M, C), NEW s \in Session
  PROVE  LET r == ListRemove(M, C, s) IN
         /\ \E l : IsList(l, r.mem, r.cache) /\ Elements(l) = Elements(q) \ {s}
         /\ Relinked(M, r.mem)
         /\ \A x \in Session \ Elements(q) : r.mem[x] = M[x]
         /\ r.cache \in Caches /\ r.cache.table = C.table
<1>1. CASE s \notin Elements(q)
  <2>1. ListRemove(M, C, s) = [mem |-> M, cache |-> C]
    BY <1>1, RemoveUnlinked
  <2>2. Relinked(M, M)
    BY DEF Relinked
  <2>3. Elements(q) = Elements(q) \ {s}
    BY <1>1
  <2> QED BY <2>1, <2>2, <2>3
<1>2. CASE s \in Elements(q)
  <2>1. PICK n \in 1..Len(q) : s = q[n]
    BY <1>2 DEF Elements
  <2> DEFINE r == ListRemove(M, C, s)
             l == Cut(q, n)
  <2>2. /\ IsList(l, r.mem, r.cache)
        /\ Relinked(M, r.mem)
        /\ \A x \in Session \ Elements(q) : r.mem[x] = M[x]
        /\ r.cache \in Caches /\ r.cache.table = C.table
        /\ Elements(l) = Elements(q) \ {s}
    BY <2>1, RemoveLinked
  <2> HIDE DEF r, l
  <2>3. \E z : IsList(z, r.mem, r.cache) /\ Elements(z) = Elements(q) \ {s}
    BY <2>2
  <2>4. /\ \E z : IsList(z, r.mem, r.cache) /\ Elements(z) = Elements(q) \ {s}
        /\ Relinked(M, r.mem)
        /\ \A x \in Session \ Elements(q) : r.mem[x] = M[x]
        /\ r.cache \in Caches /\ r.cache.table = C.table
    BY <2>2, <2>3
  <2> QED BY <2>4 DEF r
<1> QED BY <1>1, <1>2

(* Only elements of the list are relinked, and they live.                  *)
LEMMA RelinkCounted ==
  ASSUME NEW M, NEW T, NEW E, NEW P, Counted(M, T, E, P), NEW C, NEW q, IsList(q, M, C),
         NEW N, Relinked(M, N), NEW s \in Session, M[s].live,
         \A x \in Session \ (Elements(q) \cup {s}) : N[x] = M[x]
  PROVE  Counted(N, T, E, P)
<1>1. M \in [Session -> Sessions]
  BY DEF Counted, Sound
<1>2. ASSUME NEW x \in Session, ~M[x].live PROVE N[x] = M[x]
  <2>1. M[x] = Blank
    BY <1>2, LiveIsHeld
  <2>2. x \notin Elements(q)
    BY <1>1, <2>1, ListElements, BlankFacts
  <2> QED BY <1>2, <2>2
<1> QED BY <1>2, CountedRelinked

(* The cache with session s taken from the list and its entry from the     *)
(* table.                                                                  *)
LessMem(M, C, s) == ListRemove(M, C, s).mem
LessCache(M, C, i, s) == [ListRemove(M, C, s).cache EXCEPT !.table = C.table \ {<<i, s>>}]

LEMMA LessOne ==
  ASSUME NEW M, NEW C \in Caches, NEW E, NEW P, Counted(M, C.table, E, P),
         Unique(M, C.table), NoRenewal => Filed(M, C.table), Linked(M, C),
         NEW i \in Id, NEW s \in Session, <<i, s>> \in C.table, M[s].id = i
  PROVE  LET N == LessMem(M, C, s)
             D == LessCache(M, C, i, s) IN
         /\ Counted(N, C.table, E, P) /\ Relinked(M, N)
         /\ D \in Caches /\ D.table = C.table \ {<<i, s>>}
         /\ D.head = ListRemove(M, C, s).cache.head /\ D.tail = ListRemove(M, C, s).cache.tail
         /\ ListRemove(M, C, s).cache \in Caches /\ ListRemove(M, C, s).cache.table = C.table
         /\ Unique(N, D.table)
         /\ NoRenewal => Filed(N, D.table)
         /\ Linked(N, D)
         /\ AllLive(N, D)
<1> DEFINE T == C.table
           N == LessMem(M, C, s)
           D == LessCache(M, C, i, s)
           R == ListRemove(M, C, s)
<1>1. M \in [Session -> Sessions]
  BY DEF Counted, Sound
<1>2. PICK q : /\ IsList(q, M, C) /\ Elements(q) \subseteq Cached(C)
               /\ NoRenewal => Elements(q) = Cached(C)
  BY DEF Linked
<1>3. /\ \E l : IsList(l, R.mem, R.cache) /\ Elements(l) = Elements(q) \ {s}
      /\ Relinked(M, R.mem)
      /\ \A x \in Session \ Elements(q) : R.mem[x] = M[x]
      /\ R.cache \in Caches /\ R.cache.table = C.table
  BY <1>1, <1>2, RemoveAny
<1>4. N = R.mem /\ D = [R.cache EXCEPT !.table = T \ {<<i, s>>}]
  BY DEF LessMem, LessCache
<1> HIDE DEF R, N, D
<1>5. PICK l : IsList(l, N, R.cache) /\ Elements(l) = Elements(q) \ {s}
  BY <1>3, <1>4
<1>6. D \in Caches /\ D.table = T \ {<<i, s>>} /\ D.head = R.cache.head /\ D.tail = R.cache.tail
  BY <1>3, <1>4 DEF Caches
<1>7. M[s].live
  BY LiveIsHeld
<1>8. Relinked(M, N) /\ \A x \in Session \ (Elements(q) \cup {s}) : N[x] = M[x]
  BY <1>3, <1>4
<1>9. Counted(N, T, E, P)
  BY <1>2, <1>7, <1>8, RelinkCounted
<1>10. \A e \in T : e[1] \in Id /\ e[2] \in Session /\ e = <<e[1], e[2]>>
  BY DEF Caches
<1>11. \A e \in T : N[e[2]].id = M[e[2]].id
  BY <1>8, <1>10 DEF Relinked
<1>12. Unique(N, D.table)
  BY <1>6, <1>11 DEF Unique
<1>13. NoRenewal => Filed(N, D.table)
  BY <1>6, <1>11 DEF Filed
<1>14. Linked(N, D)
  <2>1. IsList(l, N, D)
    BY <1>5, <1>6 DEF IsList
  <2>2. Cached(C) \ {s} \subseteq Cached(D)
    <3>1. ASSUME NEW x \in Cached(C) \ {s} PROVE x \in Cached(D)
      <4>1. PICK e \in T : e[2] = x
        BY <3>1 DEF Cached
      <4>2. e \in D.table
        BY <4>1, <3>1, <1>6
      <4> QED BY <4>1, <4>2 DEF Cached
    <3> QED BY <3>1
  <2>3. NoRenewal => Cached(D) \subseteq Cached(C) \ {s}
    <3>1. ASSUME NoRenewal, NEW x \in Cached(D) PROVE x \in Cached(C) \ {s}
      <4>1. PICK e \in D.table : e[2] = x
        BY <3>1 DEF Cached
      <4>2. e \in T /\ e # <<i, s>>
        BY <4>1, <1>6
      <4>3. M[e[2]].id = e[1] /\ e = <<e[1], e[2]>>
        BY <3>1, <4>2, <1>10 DEF Filed
      <4>4. x # s
        BY <4>1, <4>2, <4>3
      <4> QED BY <4>1, <4>2, <4>4 DEF Cached
    <3> QED BY <3>1
  <2>4. Elements(l) \subseteq Cached(D) /\ (NoRenewal => Elements(l) = Cached(D))
    BY <1>2, <1>5, <2>2, <2>3
  <2> QED BY <2>1, <2>4 DEF Linked
<1>15. AllLive(N, D)
  <2>1. ASSUME NEW e \in D.table PROVE N[e[2]].live
    <3>1. e \in T /\ e[1] \in Id /\ e[2] \in Session /\ e = <<e[1], e[2]>>
      BY <1>6, <1>10
    <3> QED BY <3>1, <1>9, LiveIsHeld
  <2> QED BY <2>1 DEF Cached, AllLive
<1> QED BY <1>3, <1>6, <1>8, <1>9, <1>12, <1>13, <1>14, <1>15 DEF R, N, D

LEMMA CacheNow ==
  ASSUME Inv
  PROVE  /\ Counted(mem, cache.table, ext, Places) /\ Unique(mem, cache.table)
         /\ NoRenewal => Filed(mem, cache.table)
         /\ Linked(mem, cache) /\ cache \in Caches
         /\ \A e \in cache.table : e[1] \in Id /\ e[2] \in Session /\ e = <<e[1], e[2]>>
BY DEF Inv, Types, CountInv, UniqueInv, FiledInv, LinkedInv, Caches

LEMMA EvictStep ==
  ASSUME Inv, NEW t \in Thread, NEW i \in Id, NEW s \in Session, <<i, s>> \in cache.table, mem[s].id = i,
         UNCHANGED <<lock, conn, pocket, now>>,
         mem' = Revoked(LessMem(mem, cache, s), s), ext' = Dropped(s), cache' = LessCache(mem, cache, i, s)
  PROVE  Inv'
<1> DEFINE N == LessMem(mem, cache, s)
           H == Half(N, s)
           T == cache.table
<1>1. /\ Counted(N, T, ext, Places) /\ Relinked(mem, N)
      /\ cache' \in Caches /\ cache'.table = T \ {<<i, s>>}
      /\ Unique(N, cache'.table) /\ (NoRenewal => Filed(N, cache'.table)) /\ Linked(N, cache')
      /\ AllLive(N, cache')
  BY CacheNow, LessOne
<1>2. mem' = Free(H, s)
  BY RevokedIs
<1> HIDE DEF N
<1>3. N[s].live
  BY <1>1, LiveIsHeld
<1>4. Counted(H, T, ext', Places) /\ Old(N, H) /\ H \in [Session -> Sessions]
  BY <1>1, <1>3, HalfFacts
<1> HIDE DEF H
<1>5. Counted(mem', cache'.table, ext', Places)
  BY <1>1, <1>2, <1>4, DropEntry
<1>6. s \in SessionOrNull
  BY DEF SessionOrNull
<1>7. Kept(N, mem')
  BY <1>2, <1>4, <1>6, FreeFacts, OldOld, OldIsKept
<1>8. Unique(mem', cache'.table) /\ (NoRenewal => Filed(mem', cache'.table)) /\ Linked(mem', cache')
  BY <1>1, <1>5, <1>7, QuietLive
<1>9. Places' = Places
  BY DEF Places
<1>10. ext' \in SUBSET Session
  BY ExtType DEF Dropped
<1> QED BY <1>1, <1>5, <1>8, <1>9, <1>10 DEF Inv, Types, CountInv, ConnInv, UniqueInv, FiledInv, LinkedInv

(* What Unlink finds.                                                      *)
LEMMA RemoveTable ==
  ASSUME Inv, NEW s \in Session
  PROVE  ListRemove(mem, cache, s).cache \in Caches /\ ListRemove(mem, cache, s).cache.table = cache.table
<1>1. mem \in [Session -> Sessions] /\ cache \in Caches /\ Linked(mem, cache)
  BY CacheNow, PocketFacts
<1>2. PICK q : IsList(q, mem, cache)
  BY <1>1 DEF Linked
<1> QED BY <1>1, <1>2, RemoveAny

LEMMA Unlinks ==
  ASSUME Inv, NEW s \in Session
  PROVE  LET r == Unlink(mem, cache, s) IN
         /\ r.found => /\ mem[s].id \in Id /\ <<mem[s].id, s>> \in cache.table
                       /\ r.mem = LessMem(mem, cache, s)
                       /\ r.cache = LessCache(mem, cache, mem[s].id, s)
         /\ ~r.found => <<mem[s].id, s>> \notin cache.table
<1> DEFINE i == mem[s].id
           E == IF i = Null THEN {} ELSE {e \in Find(mem, cache, i) : e[2] = s}
           R == ListRemove(mem, cache, s)
           D == [R.cache EXCEPT !.table = @ \ E]
           r == Unlink(mem, cache, s)
<1>1. /\ r.found <=> E # {}
      /\ r.mem = IF E = {} THEN mem ELSE R.mem
      /\ r.cache = IF E = {} THEN cache ELSE D
  <2>1. r = [found |-> E # {}, mem |-> IF E = {} THEN mem ELSE R.mem, cache |-> IF E = {} THEN cache ELSE D]
    BY DEF Unlink
  <2> HIDE DEF E, D, R, r
  <2> QED BY <2>1
<1>2. \A e \in cache.table : e[1] \in Id /\ e[2] \in Session /\ e = <<e[1], e[2]>>
  BY CacheNow
<1>3. CASE <<i, s>> \in cache.table
  <2>1. i \in Id /\ i # Null
    BY <1>2, <1>3, Pointers
  <2>2. E = {<<i, s>>}
    <3>1. \A e \in E : e = <<i, s>>
      BY <1>2 DEF Find
    <3>2. <<i, s>> \in E
      BY <1>3, <2>1 DEF Find
    <3> QED BY <3>1, <3>2
  <2>3. R.cache.table = cache.table /\ R.cache \in Caches
    BY RemoveTable
  <2> HIDE DEF R
  <2>4. D = [R.cache EXCEPT !.table = cache.table \ {<<i, s>>}]
    BY <2>2, <2>3 DEF Caches
  <2>5. r.found /\ r.mem = R.mem /\ r.cache = D
    <3>1. E # {}
      BY <2>2
    <3> HIDE DEF E, D, r
    <3> QED BY <1>1, <3>1
  <2> QED BY <1>3, <2>1, <2>4, <2>5 DEF R, LessMem, LessCache
<1>4. CASE <<i, s>> \notin cache.table
  <2>1. E = {}
    <3>1. \A e \in E : e = <<i, s>> /\ e \in cache.table
      BY <1>2 DEF Find
    <3> QED BY <1>4, <3>1
  <2> HIDE DEF E, D, R
  <2> QED BY <1>1, <1>4, <2>1
<1> QED BY <1>3, <1>4

LEMMA EvictMoreInv == ASSUME Inv, NEW t \in Thread, EvictMore(t) PROVE Inv'
<1> DEFINE s == cache.tail
<1>1. /\ s # Null /\ Unlink(mem, cache, s).found /\ UNCHANGED <<lock, conn, pocket, now>>
      /\ mem' = Revoked(Unlink(mem, cache, s).mem, s) /\ cache' = Unlink(mem, cache, s).cache
      /\ ext' = Dropped(s)
  BY DEF EvictMore, Evictable
<1>2. s \in Session
  BY <1>1, CacheNow DEF Caches, SessionOrNull
<1> HIDE DEF s
<1>3. /\ mem[s].id \in Id /\ <<mem[s].id, s>> \in cache.table
      /\ mem' = Revoked(LessMem(mem, cache, s), s)
      /\ cache' = LessCache(mem, cache, mem[s].id, s)
  BY <1>1, <1>2, Unlinks
<1> QED BY <1>1, <1>2, <1>3, EvictStep

(* A session is not flushed from another bucket than its ID's.             *)
NoLateFlush == NoRenewal \/ MaxTime = 0

LEMMA ExpiredInTime ==
  ASSUME Inv, NoLateFlush, NEW e \in cache.table, Expired(e[2])
  PROVE  /\ NoRenewal /\ mem[e[2]].id = e[1] /\ Find(mem, cache, e[1]) = {e}
<1>1. e[1] \in Id /\ e[2] \in Session /\ e = <<e[1], e[2]>>
  BY CacheNow
<1>2. NoRenewal
  <2>1. mem[e[2]].time \in Nat
    BY <1>1, PocketFacts DEF Sessions
  <2>2. now \in 0..MaxTime /\ MaxTime \in Nat
    BY SizesAssumption DEF SizesAssumption, Inv, Types
  <2> QED BY <2>1, <2>2 DEF Expired, NoLateFlush
<1>3. mem[e[2]].id = e[1]
  BY <1>2, CacheNow DEF Filed
<1>4. Find(mem, cache, e[1]) = {e}
  <2>1. Unique(mem, cache.table)
    BY CacheNow
  <2>2. e \in Find(mem, cache, e[1])
    BY <1>3 DEF Find
  <2>3. \A f \in Find(mem, cache, e[1]) : f = e
    BY <1>3, <2>1 DEF Find, Unique
  <2> QED BY <2>2, <2>3
<1> QED BY <1>2, <1>3, <1>4

LEMMA FlushOneInv == ASSUME Inv, NoLateFlush, NEW t \in Thread, FlushOne(t) PROVE Inv'
<1>1. PICK e \in cache.table :
       LET r == ListRemove(mem, cache, e[2]) IN
       /\ Expired(e[2])
       /\ mem' = Revoked(r.mem, e[2]) /\ ext' = Dropped(e[2])
       /\ cache' = [r.cache EXCEPT !.table = @ \ Find(mem, cache, mem[e[2]].id)]
  BY DEF FlushOne
<1> DEFINE s == e[2]
           i == e[1]
           R == ListRemove(mem, cache, s)
<1>2. i \in Id /\ s \in Session /\ <<i, s>> \in cache.table /\ e = <<i, s>>
  BY CacheNow
<1>3. mem[s].id = i /\ Find(mem, cache, i) = {<<i, s>>}
  BY <1>1, <1>2, ExpiredInTime
<1>4. cache' = [R.cache EXCEPT !.table = @ \ Find(mem, cache, mem[s].id)]
  BY <1>1
<1>5. R.cache.table = cache.table /\ R.cache \in Caches
  BY <1>2, RemoveTable
<1>6. mem' = Revoked(R.mem, s) /\ ext' = Dropped(s) /\ UNCHANGED <<lock, conn, pocket, now>>
  BY <1>1 DEF FlushOne
<1> HIDE DEF R, s, i
<1>7. cache' = [R.cache EXCEPT !.table = cache.table \ {<<i, s>>}]
  BY <1>3, <1>4, <1>5 DEF Caches
<1> QED BY <1>2, <1>3, <1>6, <1>7, EvictStep DEF R, LessMem, LessCache

LEMMA FailInvStep == ASSUME Inv, NEW t \in Thread, Fail(t) PROVE Inv'
<1> DEFINE T == cache.table
           s == conn[t].sess
           i == mem[s].id
           r == Unlink(mem, cache, s)
<1>1. /\ conn[t] \in Conns /\ conn[t].pc \in {"handshake", "up"} /\ UNCHANGED <<lock, ext, pocket, now>>
      /\ ConnOK(conn[t], lock = t) /\ lock \in Thread \cup {Null} /\ lock = Null
      /\ Places \in [Place -> SessionOrNull]
      /\ \/ /\ r.found /\ mem' = r.mem /\ cache' = r.cache
            /\ Set(t, [conn[t] EXCEPT !.pc = "unlinked", !.ret = s, !.back = "failed"])
         \/ Goto(t, "failed") /\ UNCHANGED <<mem, cache>>
  BY UsingNow DEF Fail, At, k, Inv, Types
<1>2. conn[t].pc \in Plain \ {"flush"} /\ ~HasRet(conn[t]) /\ HasSess(conn[t])
  BY <1>1 DEF Plain, PC, HasRet, HasSess
<1>3. Using(mem, T, ext, Places, t, s, Null, Null) /\ s \in Session /\ conn[t].ret = Null
  BY <1>2, UsingPlain
<1>4. CASE Goto(t, "failed") /\ UNCHANGED <<mem, cache>>
  <2>1. "failed" \in PC /\ "failed" \in Plain \ {"idle", "flush"}
    BY DEF Plain, PC
  <2>2. /\ HasSess([conn[t] EXCEPT !.pc = "failed"]) => conn[t].sess \in Session
        /\ HasRet([conn[t] EXCEPT !.pc = "failed"]) <=> HasRet(conn[t])
    BY <1>1, <1>2, <1>3, <2>1, GotoUses
  <2> QED BY <1>1, <1>2, <1>4, <2>1, <2>2, GotoStep
<1>5. CASE /\ r.found /\ mem' = r.mem /\ cache' = r.cache
           /\ Set(t, [conn[t] EXCEPT !.pc = "unlinked", !.ret = s, !.back = "failed"])
  <2> DEFINE c == [conn[t] EXCEPT !.pc = "unlinked", !.ret = s, !.back = "failed"]
  <2>1. c \in Conns /\ c.pc = "unlinked" /\ c.back = "failed" /\ c.sess = s /\ c.ret = s
    BY <1>1, <1>3 DEF Conns, PC, SessionOrNull
  <2>2. Set(t, c)
    BY <1>5
  <2> HIDE DEF c
  <2>3. /\ i \in Id /\ <<i, s>> \in T
        /\ mem' = LessMem(mem, cache, s) /\ cache' = LessCache(mem, cache, i, s)
    BY <1>3, <1>5, Unlinks
  <2> DEFINE Q == Moved(Places, t, s, Null, Null)
  <2>4. Counted(mem, T, ext, Q) /\ s \in SessionOrNull /\ Null \in SessionOrNull
    BY <1>3 DEF Using
  <2> HIDE DEF Q
  <2>5. /\ Counted(mem', T, ext, Q)
        /\ cache' \in Caches /\ cache'.table = T \ {<<i, s>>}
        /\ Unique(mem', cache'.table) /\ (NoRenewal => Filed(mem', cache'.table)) /\ Linked(mem', cache')
    BY <1>3, <2>3, <2>4, CacheNow, LessOne
  <2>6. Using(mem', T, ext, Places, t, s, Null, Null)
    BY <2>4, <2>5 DEF Using, Q
  <2>7. Using(mem', T \ {<<i, s>>}, ext, Places, t, s, s, Null)
    BY <1>1, <1>3, <2>3, <2>6, EntryToRet
  <2>8. Use(c, "sess") = s /\ Use(c, "ret") = s /\ Use(c, "more") = Null
    BY <2>1, UseFacts
  <2>9. Using(mem', cache'.table, ext', Places, t, Use(c, "sess"), Use(c, "ret"), Use(c, "more"))
    BY <1>1, <2>5, <2>7, <2>8
  <2>10. ConnOK(c, lock' = t)
    BY <1>1, <1>3, <2>1, Pointers DEF ConnOK, HasSess, HasRet
  <2>11. UniqueInv' /\ FiledInv' /\ LinkedInv'
    BY <2>5 DEF UniqueInv, FiledInv, LinkedInv
  <2> QED BY <1>1, <2>1, <2>2, <2>5, <2>9, <2>10, <2>11, StepOf, ExtType
<1> QED BY <1>1, <1>4, <1>5

LEMMA RemoveExpiredInv == ASSUME Inv, NEW t \in Thread, RemoveExpired(t) PROVE Inv'
<1> DEFINE T == cache.table
           s == conn[t].ret
           i == mem[s].id
           r == Unlink(mem, cache, s)
<1>1. /\ conn[t] \in Conns /\ conn[t].pc = "expired" /\ UNCHANGED <<lock, ext, pocket, now>>
      /\ ConnOK(conn[t], lock = t) /\ lock \in Thread \cup {Null} /\ lock = Null
      /\ Places \in [Place -> SessionOrNull]
      /\ \/ /\ r.found /\ mem' = r.mem /\ cache' = r.cache
            /\ Set(t, [conn[t] EXCEPT !.pc = "unlinked", !.back = "release"])
         \/ Goto(t, "release") /\ UNCHANGED <<mem, cache>>
  BY UsingNow DEF RemoveExpired, At, k, Inv, Types
<1>2. conn[t].pc \in Plain \ {"flush"} /\ HasRet(conn[t])
  BY <1>1 DEF Plain, PC, HasRet
<1>3. Using(mem, T, ext, Places, t, conn[t].sess, s, Null) /\ s \in Session
  BY <1>2, UsingPlain
<1>4. CASE Goto(t, "release") /\ UNCHANGED <<mem, cache>>
  <2>1. "release" \in PC /\ "release" \in Plain \ {"idle", "flush"}
    BY DEF Plain, PC
  <2>2. /\ HasSess([conn[t] EXCEPT !.pc = "release"]) => conn[t].sess \in Session
        /\ HasRet([conn[t] EXCEPT !.pc = "release"]) <=> HasRet(conn[t])
    BY <1>1, <1>2, <1>3, <2>1, GotoUses
  <2> QED BY <1>1, <1>2, <1>4, <2>1, <2>2, GotoStep
<1>5. CASE /\ r.found /\ mem' = r.mem /\ cache' = r.cache
           /\ Set(t, [conn[t] EXCEPT !.pc = "unlinked", !.back = "release"])
  <2> DEFINE c == [conn[t] EXCEPT !.pc = "unlinked", !.back = "release"]
             a == conn[t].sess
  <2>1. c \in Conns /\ c.pc = "unlinked" /\ c.back = "release" /\ c.sess = a /\ c.ret = s
    BY <1>1, <1>3 DEF Conns, PC
  <2>2. Set(t, c)
    BY <1>5
  <2> HIDE DEF c
  <2>3. /\ i \in Id /\ <<i, s>> \in T
        /\ mem' = LessMem(mem, cache, s) /\ cache' = LessCache(mem, cache, i, s)
    BY <1>3, <1>5, Unlinks
  <2> DEFINE Q == Moved(Places, t, a, s, Null)
  <2>4. Counted(mem, T, ext, Q) /\ a \in SessionOrNull /\ s \in SessionOrNull /\ Null \in SessionOrNull
    BY <1>3 DEF Using
  <2> HIDE DEF Q
  <2>5. /\ Counted(mem', T, ext, Q)
        /\ cache' \in Caches /\ cache'.table = T \ {<<i, s>>}
        /\ Unique(mem', cache'.table) /\ (NoRenewal => Filed(mem', cache'.table)) /\ Linked(mem', cache')
    BY <1>3, <2>3, <2>4, CacheNow, LessOne
  <2>6. Using(mem', T, ext, Places, t, a, s, Null)
    BY <2>4, <2>5 DEF Using, Q
  <2>7. Using(mem', T \ {<<i, s>>}, ext, Places, t, a, s, s)
    BY <1>1, <1>3, <2>3, <2>6, EntryToMore
  <2>8. Use(c, "sess") = a /\ Use(c, "ret") = s /\ Use(c, "more") = s
    BY <2>1, UseFacts
  <2>9. Using(mem', cache'.table, ext', Places, t, Use(c, "sess"), Use(c, "ret"), Use(c, "more"))
    BY <1>1, <2>5, <2>7, <2>8
  <2>10. ConnOK(c, lock' = t)
    BY <1>1, <1>3, <2>1, Pointers DEF ConnOK, HasSess, HasRet
  <2>11. UniqueInv' /\ FiledInv' /\ LinkedInv'
    BY <2>5 DEF UniqueInv, FiledInv, LinkedInv
  <2> QED BY <1>1, <2>1, <2>2, <2>5, <2>9, <2>10, <2>11, StepOf, ExtType
<1> QED BY <1>1, <1>4, <1>5

-----------------------------------------------------------------------------
(* SSL_CTX_add_session under the lock.                                      *)
AddMem(M, C, s) == ListAdd(M, C, s).mem
AddCache(M, C, U, i, s) == [ListAdd(M, C, s).cache EXCEPT !.table = U \cup {<<i, s>>}]
\* No session in table U is found under ID i.
Absent(M, U, i) == \A e \in U : ~(e[1] = i /\ M[e[2]].id = i)
\* The list of C holds the sessions of table U.
Lists(q, M, C, U) ==
  /\ IsList(q, M, C) /\ Elements(q) \subseteq {e[2] : e \in U}
  /\ NoRenewal => Elements(q) = {e[2] : e \in U}

LEMMA AddOne ==
  ASSUME NEW M, NEW C \in Caches, NEW U \in SUBSET (Id \X Session), NEW E, NEW P \in [Place -> SessionOrNull],
         NEW t \in Thread, NEW a, NEW s \in Session, NEW m, Using(M, U, E, P, t, a, s, m),
         Unique(M, U), NoRenewal => Filed(M, U), NEW q, Lists(q, M, C, U),
         NEW i \in Id, M[s].id = i, Absent(M, U, i)
  PROVE  LET N == AddMem(M, C, s)
             D == AddCache(M, C, U, i, s) IN
         /\ D \in Caches /\ D.table = U \cup {<<i, s>>}
         /\ Relinked(M, N)
         /\ Using(N, D.table, E, P, t, a, Null, m)
         /\ Unique(N, D.table)
         /\ NoRenewal => Filed(N, D.table)
         /\ Linked(N, D)
<1> DEFINE R == ListAdd(M, C, s)
           N == AddMem(M, C, s)
           D == AddCache(M, C, U, i, s)
           Q == Moved(P, t, a, s, m)
<1>1. /\ a \in SessionOrNull /\ s \in SessionOrNull /\ m \in SessionOrNull /\ Counted(M, U, E, Q)
      /\ M \in [Session -> Sessions] /\ M[s].live
  BY UsingFacts DEF Using
<1>2. IsList(q, M, C)
  BY DEF Lists
<1>3. /\ \E l : IsList(l, R.mem, R.cache) /\ Elements(l) = Elements(q) \cup {s}
      /\ Relinked(M, R.mem)
      /\ \A x \in Session \ (Elements(q) \cup {s}) : R.mem[x] = M[x]
      /\ R.cache \in Caches /\ R.cache.table = C.table
  <2>1. M \in [Session -> Sessions] /\ IsList(q, M, C) /\ C \in Caches /\ s \in Session
    BY <1>1, <1>2
  <2>2. LET r == ListAdd(M, C, s) IN
         /\ \E l : IsList(l, r.mem, r.cache) /\ Elements(l) = Elements(q) \cup {s}
         /\ Relinked(M, r.mem)
         /\ \A x \in Session \ (Elements(q) \cup {s}) : r.mem[x] = M[x]
         /\ r.cache \in Caches /\ r.cache.table = C.table
    BY <2>1, AddToList
  <2> QED BY <2>2
<1>4. N = R.mem /\ D = [R.cache EXCEPT !.table = U \cup {<<i, s>>}]
  BY DEF AddMem, AddCache
<1> HIDE DEF R, N, D, Q
<1>5. PICK l : IsList(l, N, R.cache) /\ Elements(l) = Elements(q) \cup {s}
  BY <1>3, <1>4
<1>6. U \cup {<<i, s>>} \in SUBSET (Id \X Session)
  OBVIOUS
<1>7. D \in Caches /\ D.table = U \cup {<<i, s>>} /\ D.head = R.cache.head /\ D.tail = R.cache.tail
  BY <1>3, <1>4, <1>6 DEF Caches
<1>8. Relinked(M, N) /\ \A x \in Session \ (Elements(q) \cup {s}) : N[x] = M[x]
  BY <1>3, <1>4
<1>9. Counted(N, U, E, Q)
  BY <1>1, <1>2, <1>8, RelinkCounted
<1>10. Using(N, U, E, P, t, a, s, m)
  BY <1>1, <1>9 DEF Using, Q
<1>11. \A e \in U : e[1] \in Id /\ e[2] \in Session /\ e = <<e[1], e[2]>>
  OBVIOUS
<1>12. <<i, s>> \notin U
  BY DEF Absent
<1>13. Using(N, U \cup {<<i, s>>}, E, P, t, a, Null, m)
  BY <1>10, <1>12, RetToEntry
<1>14. (\A e \in U : N[e[2]].id = M[e[2]].id) /\ N[s].id = i
  BY <1>8, <1>11 DEF Relinked
<1>15. Unique(N, D.table)
  <2>1. ASSUME NEW e \in D.table, NEW f \in D.table, e[1] = f[1], N[e[2]].id = e[1], N[f[2]].id = f[1]
        PROVE  e = f
    <3>1. (e \in U \/ e = <<i, s>>) /\ (f \in U \/ f = <<i, s>>)
      BY <1>7
    <3>2. CASE e \in U /\ f \in U
      BY <2>1, <3>2, <1>14 DEF Unique
    <3>3. CASE e \in U /\ f = <<i, s>>
      <4>1. e[1] = i /\ M[e[2]].id = i
        BY <2>1, <3>3, <1>14
      <4> QED BY <4>1, <3>3 DEF Absent
    <3>4. CASE f \in U /\ e = <<i, s>>
      <4>1. f[1] = i /\ M[f[2]].id = i
        BY <2>1, <3>4, <1>14
      <4> QED BY <4>1, <3>4 DEF Absent
    <3> QED BY <3>1, <3>2, <3>3, <3>4
  <2> QED BY <2>1 DEF Unique
<1>16. NoRenewal => Filed(N, D.table)
  <2>1. ASSUME NoRenewal, NEW e \in D.table PROVE N[e[2]].id = e[1]
    <3>1. CASE e \in U
      BY <2>1, <3>1, <1>14 DEF Filed
    <3>2. CASE e = <<i, s>>
      BY <3>2, <1>14
    <3> QED BY <3>1, <3>2, <1>7
  <2> QED BY <2>1 DEF Filed
<1>17. Linked(N, D)
  <2>1. IsList(l, N, D)
    BY <1>5, <1>7 DEF IsList
  <2>2. Cached(D) = {e[2] : e \in U} \cup {s}
    <3>1. ASSUME NEW x \in Cached(D) PROVE x \in {e[2] : e \in U} \cup {s}
      <4>1. PICK e \in D.table : x = e[2]
        BY <3>1 DEF Cached
      <4> QED BY <4>1, <1>7
    <3>2. ASSUME NEW e \in U PROVE e[2] \in Cached(D)
      BY <1>7 DEF Cached
    <3>3. s \in Cached(D)
      <4>1. <<i, s>> \in D.table /\ <<i, s>>[2] = s
        BY <1>7
      <4> QED BY <4>1 DEF Cached
    <3> QED BY <3>1, <3>2, <3>3
  <2>3. Elements(l) \subseteq Cached(D) /\ (NoRenewal => Elements(l) = Cached(D))
    BY <1>5, <2>2 DEF Lists
  <2> QED BY <2>1, <2>3 DEF Linked
<1> QED BY <1>7, <1>8, <1>13, <1>15, <1>16, <1>17 DEF N, D

(* The session that goes for s, and what is left.                          *)
OutMem(o) == Free(ListRemove(mem, cache, o).mem, o)
OutCache(o) == ListRemove(mem, cache, o).cache

LEMMA Ousted ==
  ASSUME Inv, NEW t \in Thread, NEW a, NEW s \in Session, NEW m,
         Using(mem, cache.table, ext, Places, t, a, s, m),
         NEW i \in Id, NEW o \in Session, <<i, o>> \in cache.table, mem[o].id = i
  PROVE  LET M == OutMem(o)
             C == OutCache(o)
             U == cache.table \ {<<i, o>>} IN
         /\ C \in Caches /\ C.table = cache.table
         /\ Using(M, U, ext, Places, t, a, s, m)
         /\ Unique(M, U) /\ (NoRenewal => Filed(M, U)) /\ \E q : Lists(q, M, C, U)
         /\ Old(LessMem(mem, cache, o), M) /\ Relinked(mem, LessMem(mem, cache, o))
<1> DEFINE Q == Moved(Places, t, a, s, m)
           N == LessMem(mem, cache, o)
           D == LessCache(mem, cache, i, o)
           M == OutMem(o)
           C == OutCache(o)
           U == cache.table \ {<<i, o>>}
<1>1. /\ a \in SessionOrNull /\ s \in SessionOrNull /\ m \in SessionOrNull
      /\ Counted(mem, cache.table, ext, Q)
  BY DEF Using
<1>2. /\ Places \in [Place -> SessionOrNull] /\ IsMoved(Places, Q, t, a, s, m)
  BY <1>1, PocketFacts, MovedFacts
<1>3. Q \in [Place -> SessionOrNull]
  BY <1>2 DEF IsMoved
<1> HIDE DEF Q, N, D
<1>4. /\ Counted(N, cache.table, ext, Q) /\ Relinked(mem, N)
      /\ D \in Caches /\ D.table = U
      /\ D.head = ListRemove(mem, cache, o).cache.head /\ D.tail = ListRemove(mem, cache, o).cache.tail
      /\ Unique(N, D.table) /\ (NoRenewal => Filed(N, D.table)) /\ Linked(N, D)
      /\ AllLive(N, D)
  BY <1>1, CacheNow, LessOne DEF N, D
<1>5. C \in Caches /\ C.table = cache.table /\ C.head = D.head /\ C.tail = D.tail
  BY <1>4, RemoveTable DEF OutCache
<1>6. M = Free(N, o)
  BY DEF OutMem, N, LessMem
<1> HIDE DEF M, C
<1>7. Counted(M, U, ext, Q)
  BY <1>4, <1>6, DropEntry
<1>8. o \in SessionOrNull /\ N \in [Session -> Sessions]
  BY <1>4 DEF SessionOrNull, Relinked
<1>9. Old(N, M) /\ Kept(N, M)
  BY <1>6, <1>8, FreeFacts, OldIsKept
<1>10. Counted(M, D.table, ext, Q)
  BY <1>4, <1>7
<1>11. Unique(M, D.table) /\ (NoRenewal => Filed(M, D.table)) /\ Linked(M, D)
  BY <1>4, <1>9, <1>10, QuietLive
<1>12. \E q : Lists(q, M, C, U)
  <2>1. PICK q : /\ IsList(q, M, D) /\ Elements(q) \subseteq Cached(D)
                 /\ NoRenewal => Elements(q) = Cached(D)
    BY <1>11 DEF Linked
  <2>2. IsList(q, M, C)
    BY <2>1, <1>5 DEF IsList
  <2>3. Cached(D) = {e[2] : e \in U}
    BY <1>4 DEF Cached
  <2>4. Lists(q, M, C, U)
    BY <2>1, <2>2, <2>3 DEF Lists
  <2> QED BY <2>4
<1>13. Using(M, U, ext, Places, t, a, s, m)
  BY <1>1, <1>7 DEF Using, Q
<1> QED BY <1>4, <1>5, <1>9, <1>11, <1>12, <1>13 DEF M, C, N

(* The branches of AddSession.                                             *)
Others(s, i) == {e[2] : e \in Find(mem, cache, i)} \ {s}

LEMMA AddCases ==
  ASSUME Inv, NEW t \in Thread, AddSession(t),
         NEW s, s = conn[t].ret, NEW i, i = mem[s].id
  PROVE  \/ /\ Find(mem, cache, i) # {} /\ Others(s, i) = {}
            /\ mem' = Free(mem, s)
            /\ Set(t, [conn[t] EXCEPT !.pc = IF conn[t].back = "notify" THEN "up" ELSE conn[t].back,
                                      !.ret = IF conn[t].back = "given" THEN @ ELSE Null])
            /\ UNCHANGED <<cache, lock>>
         \/ /\ Find(mem, cache, i) = {}
            /\ mem' = AddMem(mem, cache, s)
            /\ cache' = [ListAdd(mem, cache, s).cache EXCEPT !.table = (@ \ Find(mem, cache, i)) \cup {<<i, s>>}]
            /\ lock' = t /\ Goto(t, "evict")
         \/ \E o \in Others(s, i) :
            /\ mem' = AddMem(OutMem(o), OutCache(o), s)
            /\ cache' = [ListAdd(OutMem(o), OutCache(o), s).cache EXCEPT
                           !.table = (@ \ Find(mem, cache, i)) \cup {<<i, s>>}]
            /\ lock' = t /\ Goto(t, "evict")
<1> DEFINE F == Find(mem, cache, i)
           O == Others(s, i)
           out == IF O = {} THEN [mem |-> mem, cache |-> cache]
                  ELSE [mem |-> OutMem(CHOOSE o \in O : TRUE), cache |-> OutCache(CHOOSE o \in O : TRUE)]
           r == ListAdd(out.mem, out.cache, s)
<1>1. IF F # {} /\ O = {}
        THEN /\ mem' = Free(mem, s)
             /\ Set(t, [conn[t] EXCEPT !.pc = IF conn[t].back = "notify" THEN "up" ELSE conn[t].back,
                                       !.ret = IF conn[t].back = "given" THEN @ ELSE Null])
             /\ UNCHANGED <<cache, lock>>
        ELSE /\ mem' = r.mem
             /\ cache' = [r.cache EXCEPT !.table = (@ \ F) \cup {<<i, s>>}]
             /\ lock' = t /\ Goto(t, "evict")
  BY DEF AddSession, k, OutMem, OutCache, Others
<1> HIDE DEF F
<1>2. CASE F # {} /\ O = {}
  BY <1>1, <1>2 DEF F
<1>3. CASE O = {} /\ F = {}
  <2>1. out.mem = mem /\ out.cache = cache
    BY <1>3
  <2>2. r = ListAdd(mem, cache, s)
    BY <2>1
  <2> QED BY <1>1, <1>3, <2>2 DEF F, AddMem
<1>4. CASE O # {}
  <2> DEFINE o == CHOOSE o \in O : TRUE
  <2>1. o \in O
    BY <1>4
  <2>2. out.mem = OutMem(o) /\ out.cache = OutCache(o)
    BY <1>4
  <2> HIDE DEF o
  <2>3. r = ListAdd(OutMem(o), OutCache(o), s)
    BY <2>2
  <2> HIDE DEF out
  <2> QED BY <1>1, <1>4, <2>1, <2>3 DEF F, AddMem
<1> QED BY <1>2, <1>3, <1>4

(* The connection that has added a session goes on to evict.               *)
LEMMA AddedStep ==
  ASSUME Inv, NEW t \in Thread, conn[t].pc = "add", lock = Null, UNCHANGED <<ext, pocket, now>>,
         lock' = t, Goto(t, "evict"),
         NEW s \in Session, s = conn[t].ret, NEW i \in Id,
         NEW U \in SUBSET (Id \X Session), NEW M, NEW C \in Caches, M[s].id = i, Absent(M, U, i),
         Using(M, U, ext, Places, t, conn[t].sess, s, IF conn[t].back = "given" THEN s ELSE Null),
         Unique(M, U), NoRenewal => Filed(M, U), NEW q, Lists(q, M, C, U),
         mem' = AddMem(M, C, s), cache' = AddCache(M, C, U, i, s)
  PROVE  Inv'
<1> DEFINE c == [conn[t] EXCEPT !.pc = "evict"]
           m == IF conn[t].back = "given" THEN s ELSE Null
           a == conn[t].sess
<1>1. conn[t] \in Conns /\ ConnOK(conn[t], lock = t) /\ Places \in [Place -> SessionOrNull]
  BY UsingNow
<1>2. c \in Conns /\ c.pc = "evict" /\ c.sess = a /\ c.ret = s /\ c.back = conn[t].back
  BY <1>1, GotoFacts DEF PC
<1>3. Set(t, c)
  BY DEF Goto, k
<1> HIDE DEF c
<1>4. Using(M, U, ext, Places, t, a, s, m)
  OBVIOUS
<1> HIDE DEF m, a
<1>5. /\ cache' \in Caches
      /\ Using(mem', cache'.table, ext, Places, t, a, Null, m)
      /\ Unique(mem', cache'.table) /\ (NoRenewal => Filed(mem', cache'.table)) /\ Linked(mem', cache')
  BY <1>1, <1>4, AddOne
<1>6. Use(c, "sess") = a /\ Use(c, "ret") = Null /\ Use(c, "more") = m
  BY <1>2, UseFacts DEF m
<1>7. Using(mem', cache'.table, ext', Places, t, Use(c, "sess"), Use(c, "ret"), Use(c, "more"))
  BY <1>5, <1>6
<1>8. ConnOK(c, lock' = t)
  BY <1>1, <1>2 DEF ConnOK, HasSess, HasRet, a
<1>9. UniqueInv' /\ FiledInv' /\ LinkedInv'
  BY <1>5 DEF UniqueInv, FiledInv, LinkedInv
<1>10. lock' \in Thread \cup {Null} /\ \A u \in Thread : u # t => (lock' = u <=> lock = u)
  BY Pointers
<1>11. ext' \in SUBSET Session
  BY ExtType
<1> QED BY <1>2, <1>3, <1>5, <1>7, <1>8, <1>9, <1>10, <1>11, StepOf

(* A session has an ID exactly while it is live.                            *)
Sane(M) ==
  /\ M \in [Session -> Sessions]
  /\ \A s \in Session : (M[s].live => M[s].id \in Id) /\ (~M[s].live => M[s] = Blank)

LEMMA SaneUsing ==
  ASSUME NEW M, NEW T, NEW E, NEW P \in [Place -> SessionOrNull], NEW t \in Thread, NEW a, NEW s \in Session,
         NEW m, Using(M, T, E, P, t, a, s, m)
  PROVE  Sane(M) /\ M[s].live
<1>1. M \in [Session -> Sessions] /\ (s \in Session => M[s].live)
  BY UsingFacts
<1>2. \A x \in Session : (M[x].live => M[x].id \in Id) /\ (~M[x].live => M[x] = Blank)
  BY UsingFacts
<1> QED BY <1>1, <1>2 DEF Sane

LEMMA AddSessionInv == ASSUME Inv, NEW t \in Thread, AddSession(t) PROVE Inv'
<1> DEFINE s == conn[t].ret
           i == mem[s].id
           T == cache.table
           F == Find(mem, cache, i)
           a == conn[t].sess
           m == IF conn[t].back = "given" THEN s ELSE Null
<1>1. /\ conn[t] \in Conns /\ conn[t].pc = "add" /\ lock = Null /\ UNCHANGED <<ext, pocket, now>>
      /\ ConnOK(conn[t], lock = t) /\ Places \in [Place -> SessionOrNull] /\ mem \in [Session -> Sessions]
      /\ Using(mem, T, ext, Places, t, Use(conn[t], "sess"), Use(conn[t], "ret"), Use(conn[t], "more"))
  BY UsingNow DEF AddSession, At
<1>2. s \in Session /\ (conn[t].back = "given" \/ (conn[t].back = "notify" /\ s = a))
  BY <1>1 DEF ConnOK, HasRet
<1>3. Using(mem, T, ext, Places, t, a, s, m)
  <2>1. Use(conn[t], "sess") = a /\ Use(conn[t], "ret") = s /\ Use(conn[t], "more") = m
    BY <1>1, UseFacts
  <2> QED BY <1>1, <2>1
<1>4. i \in Id
  <2> HIDE DEF T, F, a, m
  <2>1. Sane(mem) /\ mem[s].live
    BY <1>1, <1>2, <1>3, SaneUsing
  <2> QED BY <1>2, <2>1 DEF Sane
<1>5. /\ Unique(mem, T) /\ (NoRenewal => Filed(mem, T)) /\ Linked(mem, cache) /\ cache \in Caches
      /\ \A e \in T : e[1] \in Id /\ e[2] \in Session /\ e = <<e[1], e[2]>>
  BY CacheNow
<1>6. \A e : e \in F <=> e \in T /\ e[1] = i /\ mem[e[2]].id = i
  BY DEF Find
<1>7. CASE /\ F # {} /\ Others(s, i) = {}
           /\ mem' = Free(mem, s)
           /\ Set(t, [conn[t] EXCEPT !.pc = IF conn[t].back = "notify" THEN "up" ELSE conn[t].back,
                                     !.ret = IF conn[t].back = "given" THEN @ ELSE Null])
           /\ UNCHANGED <<cache, lock>>
  <2> DEFINE c == [conn[t] EXCEPT !.pc = IF conn[t].back = "notify" THEN "up" ELSE conn[t].back,
                                  !.ret = IF conn[t].back = "given" THEN @ ELSE Null]
  <2>1. Set(t, c) /\ mem' = Free(mem, s) /\ UNCHANGED <<cache, lock>>
    BY <1>7
  <2>2. c \in Conns /\ c.sess = a /\ c.ret = m
        /\ c.pc = (IF conn[t].back = "notify" THEN "up" ELSE "given")
    BY <1>1, <1>2 DEF Conns, PC, SessionOrNull
  <2> HIDE DEF c
  <2>3. Using(mem', T, ext, Places, t, a, m, Null)
    <3>1. CASE conn[t].back = "given"
      <4>1. m = s
        BY <3>1
      <4> QED BY <1>1, <1>3, <2>1, <4>1, DropMore
    <3>2. CASE conn[t].back = "notify"
      <4>1. m = Null
        BY <3>2
      <4> QED BY <1>1, <1>3, <2>1, <4>1, DropRet
    <3> QED BY <1>2, <3>1, <3>2
  <2>4. c.pc \in Plain
    BY <2>2 DEF Plain, PC
  <2>5. Use(c, "sess") = a /\ Use(c, "ret") = m /\ Use(c, "more") = Null
    BY <2>2, <2>4, PlainUse
  <2>6. Using(mem', cache.table, ext', Places, t, Use(c, "sess"), Use(c, "ret"), Use(c, "more"))
    BY <1>1, <2>3, <2>5
  <2>7. ConnOK(c, lock' = t)
    BY <1>1, <1>2, <2>1, <2>2, Pointers DEF ConnOK, HasSess, HasRet
  <2>8. s \in SessionOrNull /\ lock \in Thread \cup {Null}
    BY <1>2 DEF SessionOrNull, Inv, Types
  <2>9. Kept(mem, mem')
    BY <1>1, <2>1, <2>8, FreeFacts, OldIsKept
  <2>10. ext' \in SUBSET Session
    BY <1>1, ExtType
  <2> QED BY <1>1, <2>1, <2>2, <2>6, <2>7, <2>8, <2>9, <2>10, QuietStep
<1>8. CASE /\ F = {}
           /\ mem' = AddMem(mem, cache, s)
           /\ cache' = [ListAdd(mem, cache, s).cache EXCEPT !.table = (@ \ F) \cup {<<i, s>>}]
           /\ lock' = t /\ Goto(t, "evict")
  <2>1. PICK q : IsList(q, mem, cache) /\ Elements(q) \subseteq Cached(cache)
                 /\ (NoRenewal => Elements(q) = Cached(cache))
    BY <1>5 DEF Linked
  <2>2. Lists(q, mem, cache, T)
    BY <2>1 DEF Lists, Cached
  <2>3. Absent(mem, T, i)
    BY <1>6, <1>8 DEF Absent
  <2>4. ListAdd(mem, cache, s).cache.table = T
    BY <1>1, <1>2, <1>5, <2>1, AddToList
  <2>5. cache' = AddCache(mem, cache, T, i, s)
    <3> DEFINE B == ListAdd(mem, cache, s).cache
    <3>1. B.table = T /\ cache' = [B EXCEPT !.table = (@ \ F) \cup {<<i, s>>}] /\ F = {}
      BY <1>8, <2>4
    <3>2. B \in Caches
      BY <1>1, <1>2, <1>5, <2>1, AddToList
    <3> HIDE DEF B, F
    <3>3. cache' = [B EXCEPT !.table = T \cup {<<i, s>>}]
      BY <3>1, <3>2 DEF Caches
    <3> QED BY <3>3 DEF AddCache, B
  <2>6. T \in SUBSET (Id \X Session)
    BY <1>5 DEF Caches
  <2>7. lock' = t /\ Goto(t, "evict") /\ mem' = AddMem(mem, cache, s)
    BY <1>8
  <2>8. mem[s].id = i /\ s = conn[t].ret
    OBVIOUS
  <2>9. Using(mem, T, ext, Places, t, conn[t].sess, s, IF conn[t].back = "given" THEN s ELSE Null)
    BY <1>3
  <2> HIDE DEF s, i, F, m, a
  <2> QED BY <1>1, <1>2, <1>4, <1>5, <2>2, <2>3, <2>5, <2>6, <2>7, <2>8, <2>9, AddedStep
<1>9. CASE \E o \in Others(s, i) :
            /\ mem' = AddMem(OutMem(o), OutCache(o), s)
            /\ cache' = [ListAdd(OutMem(o), OutCache(o), s).cache EXCEPT
                           !.table = (@ \ F) \cup {<<i, s>>}]
            /\ lock' = t /\ Goto(t, "evict")
  <2>1. PICK o \in Others(s, i) :
            /\ mem' = AddMem(OutMem(o), OutCache(o), s)
            /\ cache' = [ListAdd(OutMem(o), OutCache(o), s).cache EXCEPT
                           !.table = (@ \ F) \cup {<<i, s>>}]
            /\ lock' = t /\ Goto(t, "evict")
    BY <1>9
  <2>2. PICK e \in F : e[2] = o /\ o # s
    BY DEF Others
  <2>3. e \in T /\ e = <<i, o>> /\ o \in Session /\ mem[o].id = i
    BY <1>5, <1>6, <2>2
  <2>4. F = {<<i, o>>}
    <3>1. \A f \in F : f = e
      BY <1>5, <1>6, <2>2 DEF Unique
    <3> QED BY <2>2, <2>3, <3>1
  <2> DEFINE M == OutMem(o)
             C == OutCache(o)
             U == T \ {<<i, o>>}
             N == LessMem(mem, cache, o)
  <2>5. /\ C \in Caches /\ C.table = T
        /\ Using(M, U, ext, Places, t, a, s, m)
        /\ Unique(M, U) /\ (NoRenewal => Filed(M, U)) /\ \E q : Lists(q, M, C, U)
        /\ Old(N, M) /\ Relinked(mem, N)
    BY <1>2, <1>3, <1>4, <2>3, Ousted
  <2> HIDE DEF M, C, N
  <2>6. PICK q : Lists(q, M, C, U)
    BY <2>5
  <2>7. M \in [Session -> Sessions] /\ M[s].live
        /\ \A x \in Session : ~M[x].live => M[x] = Blank
    <3> HIDE DEF s, i, F, m, a, T, U
    <3>1. Sane(M) /\ M[s].live
      BY <1>1, <1>2, <2>5, SaneUsing
    <3> QED BY <3>1 DEF Sane
  <2>8. \A x \in Session : M[x].live => M[x].id = mem[x].id
    BY <2>5 DEF Old, Relinked
  <2>9. M[s].id = i
    BY <1>2, <2>7, <2>8
  <2>10. Absent(M, U, i)
    <3>1. ASSUME NEW f \in U, f[1] = i, M[f[2]].id = i PROVE FALSE
      <4>1. f \in T /\ f # <<i, o>> /\ f[2] \in Session
        BY <1>5, <3>1
      <4>2. M[f[2]].live
        <5>1. SUFFICES ASSUME ~M[f[2]].live PROVE FALSE
          OBVIOUS
        <5>2. M[f[2]] = Blank
          BY <2>7, <4>1, <5>1
        <5> QED BY <3>1, <5>2, <1>4, BlankFacts, Pointers
      <4>3. f \in F
        BY <1>6, <2>8, <3>1, <4>1, <4>2
      <4> QED BY <2>4, <4>1, <4>3
    <3> QED BY <3>1 DEF Absent
  <2>11. IsList(q, M, C)
    BY <2>6 DEF Lists
  <2>12. ListAdd(M, C, s).cache \in Caches /\ ListAdd(M, C, s).cache.table = T
    BY <1>2, <2>5, <2>7, <2>11, AddToList
  <2>13. cache' = AddCache(M, C, U, i, s)
    <3> DEFINE B == ListAdd(M, C, s).cache
    <3>1. B.table = T /\ cache' = [B EXCEPT !.table = (@ \ F) \cup {<<i, s>>}] /\ F = {<<i, o>>}
      BY <2>1, <2>4, <2>12 DEF M, C
    <3>2. B \in Caches
      BY <2>12
    <3> HIDE DEF B, F
    <3>3. cache' = [B EXCEPT !.table = U \cup {<<i, s>>}]
      BY <3>1, <3>2 DEF Caches
    <3> QED BY <3>3 DEF AddCache, B
  <2>14. U \in SUBSET (Id \X Session)
    BY <1>5 DEF Caches
  <2>15. lock' = t /\ Goto(t, "evict") /\ mem' = AddMem(M, C, s)
    BY <2>1 DEF M, C
  <2>16. s = conn[t].ret
    OBVIOUS
  <2>17. Using(M, U, ext, Places, t, conn[t].sess, s, IF conn[t].back = "given" THEN s ELSE Null)
    BY <2>5
  <2> HIDE DEF s, i, F, m, a, U
  <2> QED BY <1>1, <1>2, <1>4, <2>5, <2>6, <2>9, <2>10, <2>13, <2>14, <2>15, <2>16, <2>17, AddedStep
<1>10. AddSession(t) /\ s = conn[t].ret /\ i = mem[s].id
  OBVIOUS
<1> HIDE DEF s, i
<1> QED BY <1>7, <1>8, <1>9, <1>10, AddCases DEF F

-----------------------------------------------------------------------------
(* The invariant, and what follows from it.                                 *)

LEMMA InitInv == Init => Inv
<1> SUFFICES ASSUME Init PROVE Inv
  OBVIOUS
<1>1. /\ mem = [s \in Session |-> Blank] /\ cache = [table |-> {}, head |-> Null, tail |-> Null]
      /\ lock = Null /\ conn = [t \in Thread |-> NoConn] /\ ext = {} /\ pocket = Null /\ now = 0
  BY DEF Init
<1>2. NoConn \in Conns /\ NoConn.pc = "idle" /\ NoConn.sess = Null /\ NoConn.ret = Null
  BY DEF NoConn, Conns, PC, SessionOrNull
<1>3. Null \in SessionOrNull
  BY DEF SessionOrNull
<1>4. cache \in Caches /\ cache.table = {} /\ cache.head = Null /\ cache.tail = Null
  BY <1>1, <1>3 DEF Caches
<1>5. Types
  BY <1>1, <1>2, <1>3, <1>4, SizesAssumption DEF Types, SizesAssumption
<1>6. ConnInv
  <2>1. ASSUME NEW t \in Thread PROVE ConnOK(conn[t], lock = t)
    <3>1. conn[t] = NoConn /\ lock # t
      BY <1>1, Pointers
    <3>2. ConnOK(NoConn, lock = t)
      BY <1>2, <3>1, Pointers DEF ConnOK, HasSess, HasRet
    <3> QED BY <3>1, <3>2
  <2> QED BY <2>1 DEF ConnInv
<1>7. \A p \in Place : Places[p] = Null
  <2>1. /\ Places[<<"pocket", Null>>] = pocket
        /\ \A f \in Fields, t \in Thread : Places[<<f, t>>] = Use(conn[t], f)
    BY <1>5, PlacesType DEF Places, Types
  <2>2. \A p \in Place : p = <<"pocket", Null>> \/ \E f \in Fields, u \in Thread : p = <<f, u>>
    BY DEF Place, Fields
  <2>3. \A f \in Fields : Use(NoConn, f) = Null
    BY <1>2 DEF Use, HoldsMore
  <2>4. \A t \in Thread : conn[t] = NoConn
    BY <1>1
  <2>5. \A f \in Fields, t \in Thread : Places[<<f, t>>] = Null
    BY <2>1, <2>3, <2>4
  <2> QED BY <1>1, <2>1, <2>2, <2>5
<1>8. CountInv
  <2> DEFINE H == HoldersIn(cache.table, ext, Places)
  <2>1. ASSUME NEW s \in Session PROVE H[s] = {}
    <3> DEFINE X == {}
    <3>1. \A i \in Id : <<"table", i>> \in X <=> <<i, s>> \in cache.table
      BY <1>4
    <3>2. <<"ext", Null>> \in X <=> s \in ext
      BY <1>1
    <3>3. \A p \in Place : p \in X <=> Places[p] = s
      BY <1>7, Pointers
    <3>4. X \in SUBSET Holder
      OBVIOUS
    <3> HIDE DEF X
    <3>5. HoldersIn(cache.table, ext, Places)[s] = X
      BY <3>1, <3>2, <3>3, <3>4, CompareHolders
    <3> QED BY <3>5 DEF X
  <2> HIDE DEF H
  <2>2. mem \in [Session -> Sessions] /\ \A s \in Session : mem[s] = Blank
    BY <1>1, BlankFacts
  <2>3. IsFiniteSet({}) /\ Cardinality({}) = 0
    BY FS_EmptySet
  <2>4. \A s \in Session : /\ IsFiniteSet(H[s]) /\ mem[s].refs = Cardinality(H[s])
                           /\ ~mem[s].live /\ mem[s].refs = 0
    BY <2>1, <2>2, <2>3, BlankFacts
  <2>5. Sound(mem, H)
    BY <2>2, <2>4 DEF Sound
  <2> QED BY <2>5 DEF CountInv, Counted, H
<1>9. UniqueInv /\ FiledInv
  BY <1>4 DEF UniqueInv, Unique, FiledInv, Filed
<1>10. LinkedInv
  <2>1. << >> \in Seq(Session) /\ Len(<< >>) = 0
    BY EmptySeq
  <2>2. \A s \in Session : mem[s].prev = Null /\ mem[s].next = Null
    BY <1>1, BlankFacts
  <2>3. IsList(<< >>, mem, cache)
    BY <1>4, <2>1, <2>2 DEF IsList
  <2>4. Elements(<< >>) = {} /\ Cached(cache) = {}
    BY <1>4, <2>1 DEF Elements, Cached
  <2> QED BY <2>3, <2>4 DEF LinkedInv, Linked
<1> QED BY <1>5, <1>6, <1>8, <1>9, <1>10 DEF Inv

LEMMA NextInv == ASSUME Inv, NoLateFlush, [Next]_vars PROVE Inv'
<1>1. CASE UNCHANGED vars
  BY <1>1 DEF vars, Inv, Types, CountInv, Places, ConnInv, UniqueInv, FiledInv, LinkedInv
<1>2. CASE Tick
  BY <1>2, TickInv
<1>3. CASE DropSession
  BY <1>3, DropSessionInv
<1>4. CASE \E t \in Thread : ThreadStep(t)
  <2>1. PICK t \in Thread : ThreadStep(t)
    BY <1>4
  <2> QED BY <2>1, StartInv, SetSessionInv, NoOfferInv, AskApplicationInv, UseFoundInv, OtherContextInv,
             NewSessionInv, NoSessionInv, ClientHelloInv, ServerHelloMissInv, ServerHelloHitInv, SwitchInv,
             UpdateCacheInv, StoreGivenInv, AddSessionInv, EvictMoreInv, EvictDoneInv, NotifyInv, FailInvStep,
             RemoveExpiredInv, RevokeInv, ReleaseInv, RenegotiateInv, CloseInv, GetSessionInv, FlushInv,
             FlushOneInv, FlushDoneInv DEF ThreadStep
<1>5. CASE \E t \in Thread, i \in Id : Lookup(t, i)
  BY <1>5, LookupInv
<1> QED BY <1>1, <1>2, <1>3, <1>4, <1>5 DEF Next

-----------------------------------------------------------------------------
(* What follows from the invariant.                                        *)

LEMMA SpecInv == ASSUME NoLateFlush PROVE Spec => []Inv
BY InitInv, NextInv, PTL DEF Spec

LEMMA TypesFollow == Inv => TypeOK
<1> SUFFICES ASSUME Inv PROVE TypeOK
  OBVIOUS
<1>1. mem \in [Session -> Sessions] /\ conn \in [Thread -> Conns] /\ cache \in Caches
  BY UsingNow, PocketFacts DEF Inv, Types
<1>2. \A s \in Session : mem[s].refs \in Nat /\ mem[s].id \in Id \cup {Null}
  BY <1>1 DEF Sessions
<1>3. \A t \in Thread : conn[t].pc \in PC
  BY <1>1 DEF Conns
<1>4. \A t \in Thread : lock = t <=> conn[t].pc \in {"evict", "flush"}
  BY DEF Inv, ConnInv, ConnOK
<1>5. cache.table \subseteq Id \X Session /\ ext \subseteq Session
  BY <1>1 DEF Caches, Inv, Types
<1> QED BY <1>2, <1>3, <1>4, <1>5 DEF TypeOK

(* The types, and that the lock is held exactly inside the two loops        *)
(* (SSL_CTX_add_session, SSL_CTX_flush_sessions).                           *)
THEOREM TypesHold == ASSUME NoLateFlush PROVE Spec => []TypeOK
BY SpecInv, TypesFollow, PTL

LEMMA HoldersAgree == ASSUME Inv, NEW s \in Session PROVE Holders(s) = HoldersIn(cache.table, ext, Places)[s]
<1> DEFINE H == HoldersIn(cache.table, ext, Places)
<1>1. /\ conn \in [Thread -> Conns] /\ pocket \in SessionOrNull
      /\ Places[<<"pocket", Null>>] = pocket /\ <<"pocket", Null>> \in Place
      /\ \A f \in Fields, t \in Thread : <<f, t>> \in Place /\ Places[<<f, t>>] = Use(conn[t], f)
  BY PlacesType DEF Inv, Types, Places
<1>2. /\ H[s] \subseteq Holder
      /\ \A i \in Id : <<"table", i>> \in H[s] <=> <<i, s>> \in cache.table
      /\ <<"ext", Null>> \in H[s] <=> s \in ext
      /\ \A p \in Place : p \in H[s] <=> Places[p] = s
  BY InHolders
<1> HIDE DEF H
<1>3. ASSUME NEW h \in Holder PROVE h \in H[s] <=> Holds(h, s)
  <2>1. CASE \E i \in Id : h = <<"table", i>>
    <3>1. PICK i \in Id : h = <<"table", i>>
      BY <2>1
    <3>2. h[1] = "table" /\ h[2] = i
      BY <3>1
    <3> QED BY <1>2, <3>1, <3>2 DEF Holds
  <2>2. CASE h = <<"ext", Null>>
    <3>1. h[1] = "ext"
      BY <2>2
    <3> QED BY <1>2, <2>2, <3>1 DEF Holds
  <2>3. CASE h = <<"pocket", Null>>
    <3>1. h[1] = "pocket"
      BY <2>3
    <3>2. h \in H[s] <=> pocket = s
      BY <1>1, <1>2, <2>3
    <3> QED BY <3>1, <3>2 DEF Holds
  <2>4. ASSUME NEW f \in Fields, NEW t \in Thread, h = <<f, t>> PROVE h \in H[s] <=> Holds(h, s)
    <3>1. h[1] = f /\ h[2] = t /\ (h \in H[s] <=> Use(conn[t], f) = s)
      BY <1>1, <1>2, <2>4
    <3>2. s # Null
      BY Pointers
    <3>3. CASE f = "sess"
      BY <3>1, <3>3 DEF Holds, Use
    <3>4. CASE f = "ret"
      BY <3>1, <3>2, <3>4 DEF Holds, Use
    <3>5. CASE f = "more"
      BY <3>1, <3>2, <3>5 DEF Holds, Use
    <3> QED BY <3>3, <3>4, <3>5 DEF Fields
  <2>5. \/ \E i \in Id : h = <<"table", i>>
        \/ h = <<"ext", Null>> \/ h = <<"pocket", Null>>
        \/ \E f \in Fields, t \in Thread : h = <<f, t>>
    BY DEF Holder, Fields
  <2> QED BY <2>1, <2>2, <2>3, <2>4, <2>5
<1>4. Holders(s) = H[s]
  BY <1>2, <1>3 DEF Holders
<1> QED BY <1>4 DEF H

LEMMA RefsFollow == Inv => RefsAreHolders
<1> SUFFICES ASSUME Inv, NEW s \in Session
             PROVE  mem[s].refs = Cardinality(Holders(s)) /\ (mem[s].live <=> Holders(s) # {})
  BY DEF RefsAreHolders
<1> DEFINE H == HoldersIn(cache.table, ext, Places)
<1>1. Sound(mem, H)
  BY DEF Inv, CountInv, Counted
<1> HIDE DEF H
<1>2. IsFiniteSet(H[s]) /\ mem[s].refs = Cardinality(H[s]) /\ (mem[s].live <=> mem[s].refs # 0)
  BY <1>1 DEF Sound
<1>3. Holders(s) = H[s]
  BY HoldersAgree DEF H
<1>4. Cardinality(H[s]) = 0 <=> H[s] = {}
  BY <1>2, FS_EmptySet
<1> QED BY <1>2, <1>3, <1>4

(* The reference count of a session is the number of those who hold it,     *)
(* and its memory is live exactly while somebody does, in every             *)
(* interleaving of the threads (CRYPTO_add on references).                  *)
THEOREM RefsAreRight == ASSUME NoLateFlush PROVE Spec => []RefsAreHolders
BY SpecInv, RefsFollow, PTL

LEMMA TableCount ==
  ASSUME Inv, NoRenewal, NEW q, IsList(q, mem, cache), Elements(q) = Cached(cache)
  PROVE  IsFiniteSet(cache.table) /\ Cardinality(cache.table) = Len(q)
<1> DEFINE n == Len(q)
           f == [j \in 1..n |-> <<mem[q[j]].id, q[j]>>]
           T == cache.table
<1>1. n \in Nat
  BY PocketFacts, ListElements
<1>2. \A i, j \in 1..n : q[i] = q[j] => i = j
  BY DEF IsList
<1>3. \A e \in T : e = <<mem[e[2]].id, e[2]>>
  BY CacheNow DEF Filed
<1>4. \A e \in T : \E j \in 1..n : e[2] = q[j]
  BY DEF Cached, Elements
<1>5. \A j \in 1..n : \E e \in T : e[2] = q[j]
  BY DEF Cached, Elements
<1>6. \A j \in 1..n : f[j] \in T
  BY <1>3, <1>5
<1>7. \A e \in T : \E j \in 1..n : f[j] = e
  BY <1>3, <1>4
<1>8. \A i, j \in 1..n : f[i] = f[j] => i = j
  BY <1>2
<1>9. f \in [1..n -> T]
  BY <1>6
<1> HIDE DEF f, n, T
<1>10. f \in Bijection(1..n, T)
  BY <1>7, <1>8, <1>9 DEF Bijection, Injection, Surjection, IsInjective
<1>11. ExistsBijection(1..n, T)
  BY <1>10 DEF ExistsBijection
<1> QED BY <1>1, <1>11, FS_NatBijection, FS_CountingElements DEF n, T

LEMMA TableFollows == Inv /\ NoRenewal => ListIsTable
<1> SUFFICES ASSUME Inv, NoRenewal PROVE ListIsTable
  OBVIOUS
<1>1. PICK q : IsList(q, mem, cache) /\ Elements(q) = Cached(cache)
  BY DEF Inv, LinkedInv, Linked
<1>2. List = q
  BY <1>1, ListIsWalked DEF List
<1>3. Cardinality(cache.table) = Len(q)
  BY <1>1, TableCount
<1>4. {q[i] : i \in 1..Len(q)} = Cached(cache)
  BY <1>1 DEF Elements
<1>5. cache.tail = (IF Len(q) = 0 THEN Null ELSE q[Len(q)])
  BY <1>1 DEF IsList
<1>6. \A i \in 1..Len(q) : mem[q[i]].prev = (IF i = 1 THEN HeadPtr ELSE q[i - 1])
  BY <1>1 DEF IsList
<1>7. ASSUME NEW e \in cache.table PROVE Find(mem, cache, mem[e[2]].id) = {e}
  <2>1. Unique(mem, cache.table) /\ Filed(mem, cache.table)
    BY CacheNow
  <2>2. mem[e[2]].id = e[1]
    BY <2>1 DEF Filed
  <2>3. \A d \in cache.table : d[1] = e[1] /\ mem[d[2]].id = e[1] => d = e
    BY <2>1, <2>2 DEF Unique
  <2> QED BY <2>2, <2>3 DEF Find
<1> QED BY <1>2, <1>3, <1>4, <1>5, <1>6, <1>7 DEF ListIsTable

(* As long as no ticket is renewed, the doubly linked list is intact in     *)
(* both directions, holds the sessions of the hash table and no other, and  *)
(* every session is found under its ID (SSL_SESSION_list_add,               *)
(* SSL_SESSION_list_remove).                                                *)
THEOREM ListIsRight == ASSUME NoRenewal PROVE Spec => []ListIsTable
<1>1. NoLateFlush
  BY DEF NoLateFlush
<1>2. Inv => ListIsTable
  BY TableFollows
<1> QED BY <1>1, <1>2, SpecInv, PTL

-----------------------------------------------------------------------------
(* The bound of the cache.                                                  *)

LEMMA TableIsFinite ==
  ASSUME Inv, NoRenewal
  PROVE  /\ IsFiniteSet(cache.table) /\ Cardinality(cache.table) \in Nat
         /\ \A T : T \subseteq cache.table => Cardinality(T) <= Cardinality(cache.table)
<1>1. PICK q : IsList(q, mem, cache) /\ Elements(q) = Cached(cache)
  BY DEF Inv, LinkedInv, Linked
<1>2. IsFiniteSet(cache.table)
  BY <1>1, TableCount
<1> QED BY <1>2, FS_CardinalityType, FS_Subset

(* The last session of the list is found, and so it can be evicted.         *)
LEMMA LastIsEvictable ==
  ASSUME Inv, NoRenewal, Cardinality(cache.table) # 0
  PROVE  Evictable(cache)
<1>1. PICK q : IsList(q, mem, cache) /\ Elements(q) = Cached(cache)
  BY DEF Inv, LinkedInv, Linked
<1>2. Len(q) # 0
  BY <1>1, TableCount
<1>3. cache.tail # Null /\ cache.tail \in Cached(cache) /\ cache.tail \in Session
  BY <1>1, <1>2, ListElements, PocketFacts
<1>4. <<mem[cache.tail].id, cache.tail>> \in cache.table
  BY <1>3, CacheNow DEF Cached, Filed
<1>5. Unlink(mem, cache, cache.tail).found
  BY <1>3, <1>4, Unlinks
<1> QED BY <1>3, <1>5 DEF Evictable

LEMMA BoundStep ==
  ASSUME Inv, NoRenewal, BoundInv, NEW t \in Thread, conn[t].pc # "evict", NEW c, Set(t, c),
         cache'.table \subseteq cache.table
  PROVE  BoundInv'
<1>1. conn \in [Thread -> Conns] /\ conn' = [conn EXCEPT ![t] = c]
  BY DEF Inv, Types, Set
<1>2. (\A u \in Thread : conn'[u].pc # "evict") => (\A u \in Thread : conn[u].pc # "evict")
  BY <1>1
<1>3. Cardinality(cache'.table) <= Cardinality(cache.table) /\ Cardinality(cache.table) \in Nat
  BY TableIsFinite
<1>4. IsFiniteSet(cache'.table) /\ Cardinality(cache'.table) \in Nat
  BY TableIsFinite, FS_Subset, FS_CardinalityType
<1> QED BY <1>2, <1>3, <1>4, SizesAssumption DEF BoundInv, SizesAssumption

LEMMA UnlinkShrinks ==
  ASSUME Inv, NEW s \in Session, Unlink(mem, cache, s).found
  PROVE  Unlink(mem, cache, s).cache.table = cache.table \ {<<mem[s].id, s>>}
<1>1. /\ mem[s].id \in Id /\ <<mem[s].id, s>> \in cache.table
      /\ Unlink(mem, cache, s).cache = LessCache(mem, cache, mem[s].id, s)
  BY Unlinks
<1>2. LessCache(mem, cache, mem[s].id, s).table = cache.table \ {<<mem[s].id, s>>}
  <2>1. PICK i \in Id : i = mem[s].id
    BY <1>1
  <2>2. <<i, s>> \in cache.table /\ mem[s].id = i
    BY <1>1, <2>1
  <2> DEFINE N == LessMem(mem, cache, s)
             D == LessCache(mem, cache, i, s)
  <2>3. /\ Counted(N, cache.table, ext, Places) /\ Relinked(mem, N)
        /\ D \in Caches /\ D.table = cache.table \ {<<i, s>>}
    BY <2>2, CacheNow, LessOne
  <2> QED BY <2>1, <2>3
<1> QED BY <1>1, <1>2

(* The steps of a connection that leave the cache alone.                    *)
Apart(t) ==
  \/ Start(t) \/ SetSession(t) \/ NoOffer(t) \/ AskApplication(t) \/ UseFound(t)
  \/ OtherContext(t) \/ NewSession(t) \/ NoSession(t) \/ ClientHello(t)
  \/ ServerHelloMiss(t) \/ ServerHelloHit(t) \/ Switch(t) \/ UpdateCache(t) \/ StoreGiven(t)
  \/ Notify(t) \/ Revoke(t) \/ Release(t) \/ Renegotiate(t) \/ Close(t) \/ Flush(t) \/ FlushDone(t)
  \/ \E i \in Id : Lookup(t, i)

LEMMA ApartFacts == ASSUME NEW t \in Thread, Apart(t) PROVE UNCHANGED cache /\ conn[t].pc # "evict" /\ \E c : Set(t, c)
<1>1. CASE Start(t) \/ SetSession(t) \/ NoOffer(t) \/ OtherContext(t) \/ ClientHello(t)
  BY <1>1 DEF Start, SetSession, NoOffer, OtherContext, ClientHello, At, Goto
<1>2. CASE AskApplication(t) \/ UseFound(t) \/ NoSession(t)
  BY <1>2 DEF AskApplication, UseFound, NoSession, At, Goto
<1>3. CASE NewSession(t)
  BY <1>3 DEF NewSession, At
<1>4. CASE ServerHelloMiss(t)
  BY <1>4 DEF ServerHelloMiss, At
<1>5. CASE ServerHelloHit(t) \/ Switch(t) \/ UpdateCache(t) \/ StoreGiven(t) \/ Notify(t)
  BY <1>5 DEF ServerHelloHit, Switch, UpdateCache, StoreGiven, Notify, At, Goto
<1>6. CASE Revoke(t) \/ Release(t) \/ Renegotiate(t) \/ Close(t) \/ Flush(t) \/ FlushDone(t)
  BY <1>6 DEF Revoke, Release, Renegotiate, Close, Flush, FlushDone, At, Goto
<1>7. CASE \E i \in Id : Lookup(t, i)
  BY <1>7 DEF Lookup, At
<1> QED BY <1>1, <1>2, <1>3, <1>4, <1>5, <1>6, <1>7 DEF Apart

LEMMA FailTable == ASSUME Inv, NEW t \in Thread, Fail(t)
                   PROVE conn[t].pc # "evict" /\ cache'.table \subseteq cache.table /\ \E c : Set(t, c)
<1>1. conn[t].pc \in {"handshake", "up"} /\ ConnOK(conn[t], lock = t)
  BY UsingNow DEF Fail, At
<1>2. conn[t].sess \in Session
  BY <1>1 DEF ConnOK, HasSess
<1>3. \/ Unlink(mem, cache, conn[t].sess).found /\ cache' = Unlink(mem, cache, conn[t].sess).cache
      \/ UNCHANGED cache
  BY DEF Fail, k
<1>4. \E c : Set(t, c)
  BY DEF Fail, Goto
<1>5. cache'.table \subseteq cache.table
  BY <1>2, <1>3, UnlinkShrinks
<1> QED BY <1>1, <1>4, <1>5

LEMMA RemoveExpiredTable == ASSUME Inv, NEW t \in Thread, RemoveExpired(t)
                            PROVE conn[t].pc # "evict" /\ cache'.table \subseteq cache.table /\ \E c : Set(t, c)
<1>1. conn[t].pc = "expired" /\ ConnOK(conn[t], lock = t)
  BY UsingNow DEF RemoveExpired, At
<1>2. conn[t].ret \in Session
  BY <1>1 DEF ConnOK, HasRet
<1>3. \/ Unlink(mem, cache, conn[t].ret).found /\ cache' = Unlink(mem, cache, conn[t].ret).cache
      \/ UNCHANGED cache
  BY DEF RemoveExpired, k
<1>4. \E c : Set(t, c)
  BY DEF RemoveExpired, Goto
<1>5. cache'.table \subseteq cache.table
  BY <1>2, <1>3, UnlinkShrinks
<1> QED BY <1>1, <1>4, <1>5

(* A session that is flushed, with its entry.                               *)
LEMMA FlushOneTable ==
  ASSUME Inv, NoLateFlush, NEW t \in Thread, FlushOne(t)
  PROVE  /\ conn[t].pc = "flush" /\ UNCHANGED <<lock, conn, pocket, now>>
         /\ \E s \in Session : /\ <<mem[s].id, s>> \in cache.table /\ mem[s].id \in Id
                               /\ cache'.table = cache.table \ {<<mem[s].id, s>>}
                               /\ cache' = LessCache(mem, cache, mem[s].id, s)
                               /\ mem' = Revoked(LessMem(mem, cache, s), s) /\ ext' = Dropped(s)
<1>1. PICK e \in cache.table :
       LET r == ListRemove(mem, cache, e[2]) IN
       /\ Expired(e[2])
       /\ mem' = Revoked(r.mem, e[2]) /\ ext' = Dropped(e[2])
       /\ cache' = [r.cache EXCEPT !.table = @ \ Find(mem, cache, mem[e[2]].id)]
  BY DEF FlushOne
<1> DEFINE s == e[2]
           R == ListRemove(mem, cache, s)
<1>2. e[1] \in Id /\ s \in Session /\ <<e[1], s>> \in cache.table /\ e = <<e[1], s>>
  BY CacheNow
<1>3. mem[s].id = e[1] /\ Find(mem, cache, mem[s].id) = {<<mem[s].id, s>>}
  BY <1>1, <1>2, ExpiredInTime
<1>4. R.cache.table = cache.table /\ R.cache \in Caches
  BY <1>2, RemoveTable
<1>5. cache' = [R.cache EXCEPT !.table = @ \ Find(mem, cache, mem[s].id)]
      /\ mem' = Revoked(R.mem, s) /\ ext' = Dropped(s)
  BY <1>1
<1> HIDE DEF R, s
<1>6. cache'.table = cache.table \ {<<mem[s].id, s>>}
  BY <1>3, <1>4, <1>5 DEF Caches
<1>7. mem' = Revoked(LessMem(mem, cache, s), s)
  BY <1>5 DEF LessMem, R
<1>8. conn[t].pc = "flush" /\ UNCHANGED <<lock, conn, pocket, now>>
  BY DEF FlushOne, At
<1>9. cache' = LessCache(mem, cache, mem[s].id, s)
  <2>1. cache' = [R.cache EXCEPT !.table = cache.table \ {<<mem[s].id, s>>}]
    BY <1>3, <1>4, <1>5 DEF Caches
  <2> QED BY <2>1 DEF LessCache, R
<1> QED BY <1>2, <1>3, <1>5, <1>6, <1>7, <1>8, <1>9

(* A session that is evicted, likewise.                                     *)
LEMMA EvictTable ==
  ASSUME Inv, NEW t \in Thread, EvictMore(t)
  PROVE  /\ conn[t].pc = "evict" /\ UNCHANGED <<lock, conn, pocket, now>>
         /\ \E s \in Session : /\ s = cache.tail
                               /\ <<mem[s].id, s>> \in cache.table /\ mem[s].id \in Id
                               /\ cache'.table = cache.table \ {<<mem[s].id, s>>}
                               /\ cache' = LessCache(mem, cache, mem[s].id, s)
                               /\ mem' = Revoked(LessMem(mem, cache, s), s) /\ ext' = Dropped(s)
<1> DEFINE s == cache.tail
<1>1. /\ s # Null /\ Unlink(mem, cache, s).found /\ UNCHANGED <<lock, conn, pocket, now>>
      /\ mem' = Revoked(Unlink(mem, cache, s).mem, s) /\ cache' = Unlink(mem, cache, s).cache
      /\ ext' = Dropped(s) /\ conn[t].pc = "evict"
  BY DEF EvictMore, Evictable, At
<1>2. s \in Session
  BY <1>1, CacheNow DEF Caches, SessionOrNull
<1>3. /\ mem[s].id \in Id /\ <<mem[s].id, s>> \in cache.table
      /\ mem' = Revoked(LessMem(mem, cache, s), s)
      /\ cache' = LessCache(mem, cache, mem[s].id, s)
  BY <1>1, <1>2, Unlinks
<1>4. cache'.table = cache.table \ {<<mem[s].id, s>>}
  BY <1>1, <1>2, UnlinkShrinks
<1> QED BY <1>1, <1>2, <1>3, <1>4

LEMMA NextBound == ASSUME Inv, NoRenewal, BoundInv, [Next]_vars PROVE BoundInv'
<1>1. CASE UNCHANGED <<cache, conn>>
  BY <1>1 DEF BoundInv
<1>2. CASE Tick \/ DropSession \/ UNCHANGED vars
  BY <1>1, <1>2 DEF Tick, DropSession, vars
<1>3. CASE \E t \in Thread : Apart(t)
  BY <1>3, ApartFacts, BoundStep
<1>4. ASSUME NEW t \in Thread, Fail(t) PROVE BoundInv'
  BY <1>4, FailTable, BoundStep
<1>5. ASSUME NEW t \in Thread, RemoveExpired(t) PROVE BoundInv'
  BY <1>5, RemoveExpiredTable, BoundStep
<1>6. ASSUME NEW t \in Thread, AddSession(t) PROVE BoundInv'
  <2>1. conn \in [Thread -> Conns] /\ conn[t].pc = "add"
    BY <1>6 DEF Inv, Types, AddSession, At
  <2>2. CASE UNCHANGED cache /\ \E c : Set(t, c)
    BY <2>1, <2>2, BoundStep
  <2>3. CASE Goto(t, "evict")
    <3>1. [conn[t] EXCEPT !.pc = "evict"].pc = "evict"
      BY <2>1 DEF Conns
    <3>2. conn'[t].pc = "evict"
      BY <2>1, <2>3, <3>1 DEF Goto, Set, k
    <3> QED BY <3>2 DEF BoundInv
  <2> QED BY <1>6, <2>2, <2>3 DEF AddSession
<1>7. ASSUME NEW t \in Thread, EvictMore(t) PROVE BoundInv'
  BY <1>7, EvictTable DEF BoundInv
<1>8. ASSUME NEW t \in Thread, EvictDone(t) PROVE BoundInv'
  <2>1. UNCHANGED cache /\ ~(Cardinality(cache.table) > CacheSize /\ Evictable(cache))
    BY <1>8 DEF EvictDone
  <2>2. Cardinality(cache.table) \in Nat
    BY TableIsFinite
  <2>3. Cardinality(cache.table) <= CacheSize
    BY <2>1, <2>2, LastIsEvictable, SizesAssumption DEF SizesAssumption
  <2> QED BY <2>1, <2>3 DEF BoundInv
<1>9. ASSUME NEW t \in Thread, FlushOne(t) PROVE BoundInv'
  <2>1. NoLateFlush
    BY DEF NoLateFlush
  <2>2. UNCHANGED conn /\ cache'.table \subseteq cache.table
    BY <1>9, <2>1, FlushOneTable
  <2>3. Cardinality(cache'.table) <= Cardinality(cache.table) /\ Cardinality(cache.table) \in Nat
        /\ IsFiniteSet(cache'.table) /\ Cardinality(cache'.table) \in Nat
    BY <2>2, TableIsFinite, FS_Subset, FS_CardinalityType
  <2> QED BY <2>2, <2>3, SizesAssumption DEF BoundInv, SizesAssumption
<1>10. ASSUME NEW t \in Thread, GetSession(t) PROVE BoundInv'
  BY <1>1, <1>10 DEF GetSession
<1> QED BY <1>2, <1>3, <1>4, <1>5, <1>6, <1>7, <1>8, <1>9, <1>10 DEF Next, ThreadStep, Apart

LEMMA BoundFollows == Inv /\ BoundInv => CacheIsBounded
<1> SUFFICES ASSUME Inv, BoundInv, lock = Null PROVE Cardinality(cache.table) <= CacheSize
  BY DEF CacheIsBounded
<1>1. \A t \in Thread : conn[t].pc # "evict"
  BY Pointers DEF Inv, ConnInv, ConnOK
<1> QED BY <1>1 DEF BoundInv

(* The cache never holds more than session_cache_size sessions once the     *)
(* lock is released: the eviction loop cannot stop early, since the tail of *)
(* the list is always found in the table (SSL_CTX_add_session).             *)
THEOREM BoundIsKept == ASSUME NoRenewal PROVE Spec => []CacheIsBounded
<1>1. NoLateFlush
  BY DEF NoLateFlush
<1>2. Init => BoundInv
  BY FS_EmptySet, SizesAssumption DEF Init, BoundInv, SizesAssumption
<1>3. Inv /\ BoundInv /\ [Next]_vars => BoundInv'
  BY NextBound
<1>4. Spec => []Inv
  BY <1>1, SpecInv
<1>5. Inv /\ BoundInv => CacheIsBounded
  BY BoundFollows
<1> QED BY <1>2, <1>3, <1>4, <1>5, PTL DEF Spec

-----------------------------------------------------------------------------
(* Sessions that are revoked stay out: a new session is its connection's    *)
(* own until it is added, and no other session is added.                    *)
Fresh(c) ==
  \/ c.pc = "handshake" /\ ~c.hit
  \/ c.pc = "add" /\ c.back = "notify"
PrivateInv ==
  \A t \in Thread : Fresh(conn[t]) =>
    LET s == conn[t].sess IN
    /\ s \notin Cached(cache) /\ s # pocket /\ ~mem[s].dead
    /\ \A u \in Thread \ {t} : conn[u].sess # s /\ conn[u].ret # s
\* No application has a cache of its own.
NoCallbacks ==
  /\ ext = {}
  /\ \A t \in Thread : /\ conn[t].pc \notin {"ask", "store", "given"}
                       /\ conn[t].pc \in {"add", "evict"} => conn[t].back # "given"
GoneInv == \A t \in Thread : conn[t].pc = "unlinked" => conn[t].ret \notin Cached(cache)
Alone == PrivateInv /\ NoCallbacks /\ GoneInv /\ FailureRemoves /\ RevokedStayOut

(* No session is revoked between memories M and N.                          *)
SameDead(M, N) == \A x \in Session : N[x].dead => M[x].dead

LEMMA SameDeads == \A L, M, N : SameDead(M, M) /\ (SameDead(L, M) /\ SameDead(M, N) => SameDead(L, N))
BY DEF SameDead

LEMMA FreeDead ==
  ASSUME NEW M \in [Session -> Sessions], NEW s \in SessionOrNull
  PROVE  SameDead(M, Free(M, s))
<1>1. CASE s = Null
  BY <1>1, FreeNull, SameDeads
<1>2. CASE s \in Session
  <2>1. Free(M, s) = [M EXCEPT ![s] = IF M[s].refs = 1 THEN Blank
                                      ELSE [M[s] EXCEPT !.refs = M[s].refs - 1]]
    BY <1>2, Pointers DEF Free
  <2>2. M[s] \in Sessions
    BY <1>2
  <2>3. [M[s] EXCEPT !.refs = M[s].refs - 1].dead = M[s].dead
    BY <2>2 DEF Sessions
  <2>4. Free(M, s)[s].dead => M[s].dead
    BY <1>2, <2>1, <2>3, BlankFacts
  <2>5. \A x \in Session : x # s => Free(M, s)[x] = M[x]
    BY <1>2, <2>1
  <2> QED BY <2>4, <2>5 DEF SameDead
<1> QED BY <1>1, <1>2 DEF SessionOrNull

LEMMA UpRefDead ==
  ASSUME NEW M \in [Session -> Sessions], NEW s \in Session
  PROVE  SameDead(M, UpRef(M, s))
<1>1. UpRef(M, s) = [M EXCEPT ![s] = [M[s] EXCEPT !.refs = M[s].refs + 1]]
  BY DEF UpRef
<1>2. M[s] \in Sessions
  OBVIOUS
<1>3. [M[s] EXCEPT !.refs = M[s].refs + 1].dead = M[s].dead
  BY <1>2 DEF Sessions
<1>4. UpRef(M, s)[s].dead = M[s].dead /\ \A x \in Session : x # s => UpRef(M, s)[x] = M[x]
  BY <1>1, <1>3
<1> QED BY <1>4 DEF SameDead

LEMMA NewDead ==
  ASSUME NEW H, Sound(mem, H), now \in Nat, NEW i \in Id, NEW M \in New(mem, i), NEW s \in NewAddress(M)
  PROVE  SameDead(mem, M) /\ ~M[s].dead /\ M \in [Session -> Sessions]
<1>1. s \in Session /\ Added(M, s, i) /\ mem \in [Session -> Sessions]
  BY NewFacts DEF Sound
<1>2. M[s] = Newborn(i) /\ \A x \in Session : x # s => M[x] = mem[x]
  BY <1>1 DEF Added
<1>3. M \in [Session -> Sessions]
  BY <1>1, NewbornFacts DEF Added
<1> QED BY <1>1, <1>2, <1>3, NewbornFacts DEF SameDead

(* The sessions a thread can come by.                                       *)
Sources(t) ==
  {conn[t].sess, conn[t].ret, pocket, Null} \cup Cached(cache) \cup {x \in Session : ~mem[x].live}
\* What is added to the cache when connection t becomes c.
Gains(t, c) == IF Fresh(conn[t]) /\ ~Fresh(c) THEN {conn[t].sess} ELSE {}
Moves(t, c) ==
  /\ c \in Conns /\ Set(t, c)
  /\ c.sess \in Sources(t) /\ c.ret \in Sources(t)
  /\ c.pc \notin {"ask", "store", "given"} /\ (c.pc \in {"add", "evict"} => c.back # "given")

LEMMA CachedFacts == ASSUME Inv PROVE \A x \in Cached(cache) : x \in Session /\ mem[x].live
<1>1. SUFFICES ASSUME NEW x \in Cached(cache) PROVE x \in Session /\ mem[x].live
  OBVIOUS
<1>2. PICK e \in cache.table : e[2] = x
  BY DEF Cached
<1>3. e[1] \in Id /\ x \in Session /\ <<e[1], x>> \in cache.table /\ Counted(mem, cache.table, ext, Places)
  BY <1>2, CacheNow
<1> QED BY <1>3, LiveIsHeld

(* What a connection, or the application, holds is live.                    *)
LEMMA HeldIsLive ==
  ASSUME Inv, NoCallbacks
  PROVE  /\ \A u \in Thread : /\ conn[u].sess \in Session => mem[conn[u].sess].live
                              /\ conn[u].ret \in Session => mem[conn[u].ret].live
         /\ pocket \in Session => mem[pocket].live
<1>1. pocket \in Session => mem[pocket].live
  BY PocketFacts, LiveIsHeld
<1>2. ASSUME NEW u \in Thread
      PROVE  /\ conn[u].sess \in Session => mem[conn[u].sess].live
             /\ conn[u].ret \in Session => mem[conn[u].ret].live
  <2>1. /\ conn[u] \in Conns /\ ConnOK(conn[u], lock = u) /\ Places \in [Place -> SessionOrNull]
        /\ Using(mem, cache.table, ext, Places, u, Use(conn[u], "sess"), Use(conn[u], "ret"), Use(conn[u], "more"))
    BY UsingNow
  <2>2. /\ Use(conn[u], "sess") \in Session => mem[Use(conn[u], "sess")].live
        /\ Use(conn[u], "ret") \in Session => mem[Use(conn[u], "ret")].live
    BY <2>1, UsingFacts
  <2>3. conn[u].sess \in Session => mem[conn[u].sess].live
    BY <2>2, UseFacts
  <2>4. CASE conn[u].pc # "evict"
    BY <2>2, <2>3, <2>4, UseFacts
  <2>5. CASE conn[u].pc = "evict"
    <3>1. conn[u].ret = conn[u].sess
      BY <2>1, <2>5 DEF ConnOK, NoCallbacks
    <3> QED BY <2>3, <3>1
  <2> QED BY <2>3, <2>4, <2>5
<1> QED BY <1>1, <1>2

LEMMA FreshHas == ASSUME Inv, NEW u \in Thread, Fresh(conn[u]) PROVE conn[u].sess \in Session
<1>1. ConnOK(conn[u], lock = u)
  BY UsingNow
<1> QED BY <1>1 DEF ConnOK, HasSess, Fresh

LEMMA AloneStep ==
  ASSUME Inv, Alone, NEW t \in Thread, NEW c, Moves(t, c),
         ext' = {}, Cached(cache') \subseteq Cached(cache) \cup Gains(t, c),
         pocket' \in {pocket, Null} \/ (pocket' = conn[t].sess /\ ~Fresh(conn[t]) /\ ~Fresh(c)),
         \A x \in Session : mem'[x].dead /\ ~mem[x].dead =>
           x \notin Cached(cache') /\ \A u \in Thread : Fresh(conn[u]) => conn[u].sess # x,
         Fresh(c) => \/ Fresh(conn[t]) /\ c.sess = conn[t].sess
                     \/ c.sess \in Session /\ ~mem[c.sess].live /\ ~mem'[c.sess].dead,
         c.pc = "unlinked" => c.ret \notin Cached(cache'),
         c.pc = "failed" /\ ~c.switched => c.sess \notin Cached(cache')
  PROVE  Alone'
<1>1. conn \in [Thread -> Conns] /\ conn' = [conn EXCEPT ![t] = c]
  BY DEF Inv, Types, Set, Moves
<1>2. conn'[t] = c /\ \A u \in Thread : u # t => conn'[u] = conn[u]
  BY <1>1
<1>3. NoCallbacks'
  BY <1>2 DEF NoCallbacks, Alone, Moves
<1>4. \A x \in Cached(cache) : x \in Session /\ mem[x].live
  BY CachedFacts
<1>5. /\ \A u \in Thread : /\ conn[u].sess \in Session => mem[conn[u].sess].live
                           /\ conn[u].ret \in Session => mem[conn[u].ret].live
      /\ pocket \in Session => mem[pocket].live
  BY HeldIsLive DEF Alone
<1>6. ASSUME NEW u \in Thread, u # t, Fresh(conn[u])
      PROVE  LET s == conn[u].sess IN
             /\ s \notin Cached(cache') /\ s # pocket' /\ ~mem'[s].dead
             /\ \A v \in Thread \ {u} : conn'[v].sess # s /\ conn'[v].ret # s
  <2> DEFINE s == conn[u].sess
  <2>1. s \in Session
    BY <1>6, FreshHas
  <2>2. /\ s \notin Cached(cache) /\ s # pocket /\ ~mem[s].dead
        /\ \A v \in Thread \ {u} : conn[v].sess # s /\ conn[v].ret # s
    BY <1>6 DEF Alone, PrivateInv
  <2>3. conn[t].sess # s /\ conn[t].ret # s
    BY <1>6, <2>2
  <2>4. s \notin Sources(t)
    BY <1>5, <2>1, <2>2, <2>3, Pointers DEF Sources
  <2>5. s \notin Cached(cache') /\ s # pocket'
    BY <2>1, <2>2, <2>3, Pointers DEF Gains
  <2>6. ~mem'[s].dead
    BY <1>6, <2>1, <2>2
  <2>7. c.sess # s /\ c.ret # s
    BY <2>4 DEF Moves
  <2> QED BY <1>2, <2>2, <2>5, <2>6, <2>7
<1>7. ASSUME Fresh(c)
      PROVE  LET s == c.sess IN
             /\ s \notin Cached(cache') /\ s # pocket' /\ ~mem'[s].dead
             /\ \A v \in Thread \ {t} : conn'[v].sess # s /\ conn'[v].ret # s
  <2> DEFINE s == c.sess
  <2>1. Gains(t, c) = {} /\ pocket' \in {pocket, Null}
    BY <1>7 DEF Gains
  <2>2. CASE Fresh(conn[t]) /\ s = conn[t].sess
    <3>1. /\ s \notin Cached(cache) /\ s # pocket /\ ~mem[s].dead
          /\ \A v \in Thread \ {t} : conn[v].sess # s /\ conn[v].ret # s
      BY <2>2 DEF Alone, PrivateInv
    <3>2. s \in Session
      BY <2>2, FreshHas
    <3>3. ~mem'[s].dead
      BY <2>2, <3>1, <3>2
    <3> QED BY <1>2, <2>1, <3>1, <3>2, <3>3, Pointers
  <2>3. CASE s \in Session /\ ~mem[s].live /\ ~mem'[s].dead
    BY <1>2, <1>4, <1>5, <2>1, <2>3, Pointers
  <2> QED BY <1>7, <2>2, <2>3
<1>8. PrivateInv'
  BY <1>2, <1>6, <1>7 DEF PrivateInv
<1>9. ASSUME NEW u \in Thread, u # t, Gains(t, c) # {}
      PROVE  conn[u].sess \notin Gains(t, c) /\ conn[u].ret \notin Gains(t, c)
  BY <1>9 DEF Gains, Alone, PrivateInv
<1>10. GoneInv'
  <2>1. ASSUME NEW u \in Thread, u # t, conn[u].pc = "unlinked" PROVE conn[u].ret \notin Cached(cache')
    BY <1>9, <2>1 DEF Alone, GoneInv
  <2> QED BY <1>2, <2>1 DEF GoneInv
<1>11. FailureRemoves'
  <2>1. ASSUME NEW u \in Thread, u # t, conn[u].pc = "failed" /\ ~conn[u].switched
        PROVE  conn[u].sess \notin Cached(cache')
    BY <1>9, <2>1 DEF Alone, FailureRemoves
  <2> QED BY <1>2, <2>1 DEF FailureRemoves
<1>12. RevokedStayOut'
  <2>1. ASSUME NEW x \in Cached(cache') PROVE ~mem'[x].dead
    <3>1. CASE x \in Cached(cache)
      BY <1>4, <2>1, <3>1 DEF Alone, RevokedStayOut
    <3>2. CASE x \in Gains(t, c)
      <4>1. x = conn[t].sess /\ Fresh(conn[t])
        BY <3>2 DEF Gains
      <4>2. x \in Session /\ ~mem[x].dead
        BY <4>1, FreshHas DEF Alone, PrivateInv
      <4> QED BY <2>1, <4>2
    <3> QED BY <2>1, <3>1, <3>2
  <2> QED BY <2>1 DEF RevokedStayOut
<1> QED BY <1>3, <1>8, <1>10, <1>11, <1>12 DEF Alone

(* A connection that changes its pc.                                        *)
LEMMA GotoMoves ==
  ASSUME Inv, NEW t \in Thread, NEW p \in PC \ {"ask", "store", "given", "add", "evict"}, Goto(t, p)
  PROVE  \E c : Moves(t, c) /\ c.pc = p /\ c.sess = conn[t].sess /\ c.ret = conn[t].ret /\ c.back = conn[t].back
                /\ c.hit = conn[t].hit /\ c.switched = conn[t].switched
<1> DEFINE c == [conn[t] EXCEPT !.pc = p]
<1>1. conn[t] \in Conns
  BY UsingNow
<1>2. /\ c \in Conns /\ c.pc = p /\ c.sess = conn[t].sess /\ c.ret = conn[t].ret /\ c.back = conn[t].back
      /\ c.hit = conn[t].hit /\ c.switched = conn[t].switched
  BY <1>1 DEF Conns
<1>3. Set(t, c)
  BY DEF Goto, k
<1> HIDE DEF c
<1>4. Moves(t, c)
  BY <1>2, <1>3 DEF Moves, Sources
<1> QED BY <1>2, <1>4

(* A step that leaves the cache and the application's sessions alone, and   *)
(* after which the connection has neither failed nor to be removed.         *)
LEMMA QuietAlone ==
  ASSUME Inv, Alone, NEW t \in Thread, NEW c, Moves(t, c), UNCHANGED <<cache, ext, pocket>>,
         SameDead(mem, mem'), c.pc \notin {"unlinked", "failed"},
         Fresh(c) => \/ Fresh(conn[t]) /\ c.sess = conn[t].sess
                     \/ c.sess \in Session /\ ~mem[c.sess].live /\ ~mem'[c.sess].dead
  PROVE  Alone'
<1>1. ext' = {} /\ Cached(cache') \subseteq Cached(cache) \cup Gains(t, c) /\ pocket' \in {pocket, Null}
  BY DEF Alone, NoCallbacks
<1>2. \A x \in Session : ~(mem'[x].dead /\ ~mem[x].dead)
  BY DEF SameDead
<1> QED BY <1>1, <1>2, AloneStep

LEMMA GotoAlone ==
  ASSUME Inv, Alone, NEW t \in Thread, UNCHANGED <<cache, ext, pocket>>, SameDead(mem, mem'),
         NEW p \in PC \ {"ask", "store", "given", "add", "evict", "unlinked", "failed", "handshake"}, Goto(t, p)
  PROVE  Alone'
<1>1. PICK c : Moves(t, c) /\ c.pc = p
  BY GotoMoves
<1>2. ~Fresh(c)
  BY <1>1 DEF Fresh
<1> QED BY <1>1, <1>2, QuietAlone

LEMMA StartAlone == ASSUME Inv, Alone, NEW t \in Thread, Start(t) PROVE Alone'
<1>1. PICK role \in Roles : Set(t, [NoConn EXCEPT !.pc = "hello", !.role = role])
  BY DEF Start
<1> DEFINE c == [NoConn EXCEPT !.pc = "hello", !.role = role]
<1>2. c \in Conns /\ c.pc = "hello" /\ c.sess = Null /\ c.ret = Null
  BY SizesAssumption DEF SizesAssumption, NoConn, Conns, PC, SessionOrNull
<1>3. Set(t, c) /\ UNCHANGED <<mem, cache, ext, pocket>>
  BY <1>1 DEF Start
<1> HIDE DEF c
<1>4. Moves(t, c) /\ ~Fresh(c)
  BY <1>2, <1>3 DEF Moves, Sources, Fresh
<1> QED BY <1>2, <1>3, <1>4, SameDeads, QuietAlone

LEMMA SetSessionAlone == ASSUME Inv, Alone, NEW t \in Thread, SetSession(t) PROVE Alone'
<1> DEFINE c == [conn[t] EXCEPT !.sess = pocket]
           M == UpRef(mem, pocket)
<1>1. conn[t] \in Conns /\ conn[t].pc = "hello" /\ mem \in [Session -> Sessions]
  BY UsingNow DEF SetSession, At
<1>2. pocket \in Session /\ conn[t].sess \in SessionOrNull
  BY <1>1 DEF SetSession, Inv, Types, SessionOrNull, Conns
<1>3. mem' = Free(M, conn[t].sess) /\ Set(t, c) /\ UNCHANGED <<cache, ext, pocket>>
  BY DEF SetSession, k
<1>4. M \in [Session -> Sessions] /\ SameDead(mem, M)
  BY <1>1, <1>2, UpRefFacts, UpRefDead
<1> HIDE DEF M
<1>5. SameDead(mem, mem')
  BY <1>2, <1>3, <1>4, FreeDead, SameDeads
<1>6. c \in Conns /\ c.pc = "hello" /\ c.sess = pocket /\ c.ret = conn[t].ret
  BY <1>1, <1>2 DEF Conns, SessionOrNull
<1> HIDE DEF c
<1>7. Moves(t, c) /\ ~Fresh(c)
  BY <1>3, <1>6 DEF Moves, Sources, Fresh
<1> QED BY <1>3, <1>5, <1>6, <1>7, QuietAlone

LEMMA LookupAlone ==
  ASSUME Inv, Alone, "external" \notin Features, NEW t \in Thread, NEW i \in Id, Lookup(t, i)
  PROVE  Alone'
<1>1. conn[t] \in Conns /\ conn[t].pc = "hello" /\ mem \in [Session -> Sessions]
  BY UsingNow DEF Lookup, At
<1>2. UNCHANGED <<cache, ext, pocket>>
  BY DEF Lookup
<1>3. CASE UNCHANGED mem /\ Set(t, [conn[t] EXCEPT !.want = i, !.pc = "new"])
  <2> DEFINE c == [conn[t] EXCEPT !.want = i, !.pc = "new"]
  <2>1. c \in Conns /\ c.pc = "new" /\ c.sess = conn[t].sess /\ c.ret = conn[t].ret
    BY <1>1 DEF Conns, PC
  <2>2. Set(t, c)
    BY <1>3
  <2> HIDE DEF c
  <2>3. Moves(t, c) /\ ~Fresh(c)
    BY <2>1, <2>2 DEF Moves, Sources, Fresh
  <2> QED BY <1>2, <1>3, <2>1, <2>3, SameDeads, QuietAlone
<1>4. CASE \E e \in Find(mem, cache, i) :
             mem' = UpRef(mem, e[2]) /\ Set(t, [conn[t] EXCEPT !.want = i, !.ret = e[2], !.pc = "found"])
  <2>1. PICK e \in Find(mem, cache, i) :
             mem' = UpRef(mem, e[2]) /\ Set(t, [conn[t] EXCEPT !.want = i, !.ret = e[2], !.pc = "found"])
    BY <1>4
  <2> DEFINE c == [conn[t] EXCEPT !.want = i, !.ret = e[2], !.pc = "found"]
  <2>2. e[2] \in Session /\ e[2] \in Cached(cache)
    BY CacheNow DEF Find, Cached
  <2>3. c \in Conns /\ c.pc = "found" /\ c.sess = conn[t].sess /\ c.ret = e[2]
    BY <1>1, <2>2 DEF Conns, PC, SessionOrNull
  <2>4. Set(t, c)
    BY <2>1
  <2> HIDE DEF c
  <2>5. Moves(t, c) /\ ~Fresh(c)
    BY <2>2, <2>3, <2>4 DEF Moves, Sources, Fresh
  <2>6. SameDead(mem, mem')
    BY <1>1, <2>1, <2>2, UpRefDead
  <2> QED BY <1>2, <2>3, <2>5, <2>6, QuietAlone
<1> QED BY <1>3, <1>4 DEF Lookup, k

LEMMA UseFoundAlone == ASSUME Inv, Alone, NEW t \in Thread, UseFound(t) PROVE Alone'
<1>1. conn[t] \in Conns /\ conn[t].pc = "found" /\ mem \in [Session -> Sessions] /\ UNCHANGED <<cache, ext, pocket>>
  BY UsingNow DEF UseFound, At, Alone, NoCallbacks
<1>2. CASE Goto(t, "expired") /\ UNCHANGED mem
  <2>1. "expired" \in PC
    BY DEF PC
  <2> QED BY <1>1, <1>2, <2>1, SameDeads, GotoAlone
<1>3. CASE mem' = Free(mem, conn[t].sess)
           /\ Set(t, [conn[t] EXCEPT !.sess = conn[t].ret, !.ret = Null, !.hit = TRUE, !.pc = "handshake"])
  <2> DEFINE c == [conn[t] EXCEPT !.sess = conn[t].ret, !.ret = Null, !.hit = TRUE, !.pc = "handshake"]
  <2>1. /\ c \in Conns /\ c.pc = "handshake" /\ c.hit /\ c.sess = conn[t].ret /\ c.ret = Null
        /\ conn[t].sess \in SessionOrNull
    BY <1>1 DEF Conns, PC, SessionOrNull
  <2>2. Set(t, c)
    BY <1>3
  <2> HIDE DEF c
  <2>3. Moves(t, c) /\ ~Fresh(c)
    BY <2>1, <2>2 DEF Moves, Sources, Fresh
  <2>4. SameDead(mem, mem')
    BY <1>1, <1>3, <2>1, FreeDead
  <2> QED BY <1>1, <2>1, <2>3, <2>4, QuietAlone
<1> QED BY <1>2, <1>3 DEF UseFound, k

(* The session looked up is let go.                                         *)
LEMMA LetGoAlone ==
  ASSUME Inv, Alone, NEW t \in Thread, mem' = Free(mem, conn[t].ret),
         Set(t, [conn[t] EXCEPT !.ret = Null, !.pc = "new"]), UNCHANGED <<cache, ext, pocket>>
  PROVE  Alone'
<1> DEFINE c == [conn[t] EXCEPT !.ret = Null, !.pc = "new"]
<1>1. conn[t] \in Conns /\ mem \in [Session -> Sessions]
  BY UsingNow
<1>2. c \in Conns /\ c.pc = "new" /\ c.sess = conn[t].sess /\ c.ret = Null /\ conn[t].ret \in SessionOrNull
  BY <1>1 DEF Conns, PC, SessionOrNull
<1>3. Set(t, c)
  OBVIOUS
<1> HIDE DEF c
<1>4. Moves(t, c) /\ ~Fresh(c)
  BY <1>2, <1>3 DEF Moves, Sources, Fresh
<1>5. SameDead(mem, mem')
  BY <1>1, <1>2, FreeDead
<1> QED BY <1>2, <1>4, <1>5, QuietAlone

(* A new session comes in the place of the connection's.                    *)
LEMMA ReplaceAlone ==
  ASSUME Inv, Alone, NEW t \in Thread,
         NEW i \in Id, NEW M \in New(mem, i), NEW s \in NewAddress(M), mem' = Free(M, conn[t].sess),
         Set(t, [conn[t] EXCEPT !.sess = s, !.hit = FALSE, !.pc = "handshake"]),
         UNCHANGED <<cache, ext, pocket>>
  PROVE  Alone'
<1> DEFINE c == [conn[t] EXCEPT !.sess = s, !.hit = FALSE, !.pc = "handshake"]
           H == HoldersIn(cache.table, ext, Places)
<1>1. conn[t] \in Conns /\ mem \in [Session -> Sessions] /\ now \in Nat
  BY UsingNow
<1>2. Sound(mem, H)
  BY DEF Inv, CountInv, Counted
<1> HIDE DEF H
<1>3. s \in Session /\ ~mem[s].live /\ SameDead(mem, M) /\ ~M[s].dead /\ M \in [Session -> Sessions]
  BY <1>1, <1>2, NewFacts, NewDead
<1>4. /\ c \in Conns /\ c.pc = "handshake" /\ c.sess = s /\ c.ret = conn[t].ret
      /\ conn[t].sess \in SessionOrNull
  BY <1>1, <1>3 DEF Conns, PC, SessionOrNull
<1>5. Set(t, c)
  OBVIOUS
<1> HIDE DEF c
<1>6. SameDead(M, mem')
  BY <1>3, <1>4, FreeDead
<1>7. SameDead(mem, mem') /\ ~mem'[s].dead
  BY <1>3, <1>6, SameDeads DEF SameDead
<1>8. Moves(t, c)
  BY <1>3, <1>4, <1>5 DEF Moves, Sources
<1> QED BY <1>3, <1>4, <1>7, <1>8, QuietAlone

LEMMA NewSessionAlone == ASSUME Inv, Alone, NEW t \in Thread, NewSession(t) PROVE Alone'
<1>1. PICK i \in Id : \E M \in New(mem, i) : \E s \in NewAddress(M) :
            /\ mem' = Free(M, k(t).sess)
            /\ Set(t, [k(t) EXCEPT !.sess = s, !.hit = FALSE, !.pc = "handshake"])
  BY DEF NewSession
<1>2. PICK M \in New(mem, i) : \E s \in NewAddress(M) :
            /\ mem' = Free(M, conn[t].sess)
            /\ Set(t, [conn[t] EXCEPT !.sess = s, !.hit = FALSE, !.pc = "handshake"])
  BY <1>1 DEF k
<1>3. UNCHANGED <<cache, ext, pocket>>
  BY DEF NewSession
<1> QED BY <1>2, <1>3, ReplaceAlone

LEMMA ServerHelloMissAlone == ASSUME Inv, Alone, NEW t \in Thread, ServerHelloMiss(t) PROVE Alone'
<1>1. PICK i \in FreshId : \E M \in New(mem, i) : \E s \in NewAddress(M) :
            /\ mem' = Free(M, k(t).sess)
            /\ Set(t, [k(t) EXCEPT !.sess = s, !.hit = FALSE, !.pc = "handshake"])
  BY DEF ServerHelloMiss
<1>2. PICK M \in New(mem, i) : \E s \in NewAddress(M) :
            /\ mem' = Free(M, conn[t].sess)
            /\ Set(t, [conn[t] EXCEPT !.sess = s, !.hit = FALSE, !.pc = "handshake"])
  BY <1>1 DEF k
<1>3. UNCHANGED <<cache, ext, pocket>> /\ i \in Id
  BY DEF ServerHelloMiss, FreshId
<1> QED BY <1>2, <1>3, ReplaceAlone

LEMMA NoSessionAlone == ASSUME Inv, Alone, NEW t \in Thread, NoSession(t) PROVE Alone'
<1>1. conn[t] \in Conns /\ mem \in [Session -> Sessions] /\ UNCHANGED <<cache, ext, pocket>>
  BY UsingNow DEF NoSession
<1>2. CASE Goto(t, "close") /\ UNCHANGED mem
  <2>1. "close" \in PC
    BY DEF PC
  <2> QED BY <1>1, <1>2, <2>1, SameDeads, GotoAlone
<1>3. CASE mem' = Free(mem, conn[t].sess) /\ Set(t, [conn[t] EXCEPT !.sess = Null, !.pc = "close"])
  <2> DEFINE c == [conn[t] EXCEPT !.sess = Null, !.pc = "close"]
  <2>1. c \in Conns /\ c.pc = "close" /\ c.sess = Null /\ c.ret = conn[t].ret /\ conn[t].sess \in SessionOrNull
    BY <1>1 DEF Conns, PC, SessionOrNull
  <2>2. Set(t, c)
    BY <1>3
  <2> HIDE DEF c
  <2>3. Moves(t, c) /\ ~Fresh(c)
    BY <2>1, <2>2 DEF Moves, Sources, Fresh
  <2>4. SameDead(mem, mem')
    BY <1>1, <1>3, <2>1, FreeDead
  <2> QED BY <1>1, <2>1, <2>3, <2>4, QuietAlone
<1> QED BY <1>2, <1>3 DEF NoSession, k

LEMMA ServerHelloHitAlone == ASSUME Inv, Alone, NoRenewal, NEW t \in Thread, ServerHelloHit(t) PROVE Alone'
<1> DEFINE c == [conn[t] EXCEPT !.hit = TRUE, !.pc = "handshake"]
<1>1. conn[t] \in Conns
  BY UsingNow
<1>2. c \in Conns /\ c.pc = "handshake" /\ c.hit /\ c.sess = conn[t].sess /\ c.ret = conn[t].ret
  BY <1>1 DEF Conns, PC
<1>3. Set(t, c) /\ UNCHANGED <<mem, cache, ext, pocket>>
  BY DEF ServerHelloHit, k, NoRenewal
<1> HIDE DEF c
<1>4. Moves(t, c) /\ ~Fresh(c)
  BY <1>2, <1>3 DEF Moves, Sources, Fresh
<1> QED BY <1>2, <1>3, <1>4, SameDeads, QuietAlone

LEMMA SwitchAlone == ASSUME Inv, Alone, NEW t \in Thread, Switch(t) PROVE Alone'
<1> DEFINE c == [conn[t] EXCEPT !.switched = TRUE]
<1>1. conn[t] \in Conns /\ conn[t].pc = "handshake"
  BY UsingNow DEF Switch, At
<1>2. c \in Conns /\ c.pc = "handshake" /\ c.hit = conn[t].hit /\ c.sess = conn[t].sess /\ c.ret = conn[t].ret
  BY <1>1 DEF Conns
<1>3. Set(t, c) /\ UNCHANGED <<mem, cache, ext, pocket>>
  BY DEF Switch, k
<1> HIDE DEF c
<1>4. Moves(t, c) /\ (Fresh(c) => Fresh(conn[t]))
  BY <1>1, <1>2, <1>3 DEF Moves, Sources, Fresh
<1> QED BY <1>2, <1>3, <1>4, SameDeads, QuietAlone

LEMMA UpdateCacheAlone == ASSUME Inv, Alone, NEW t \in Thread, UpdateCache(t) PROVE Alone'
<1>1. /\ conn[t] \in Conns /\ conn[t].pc = "handshake" /\ mem \in [Session -> Sessions]
      /\ UNCHANGED <<cache, ext, pocket>> /\ ConnOK(conn[t], lock = t)
  BY UsingNow DEF UpdateCache, At
<1>2. conn[t].sess \in Session
  BY <1>1 DEF ConnOK, HasSess
<1>3. CASE Goto(t, "up") /\ UNCHANGED mem
  <2>1. "up" \in PC
    BY DEF PC
  <2> QED BY <1>1, <1>3, <2>1, SameDeads, GotoAlone
<1>4. CASE /\ ~conn[t].hit /\ mem' = UpRef(mem, conn[t].sess)
           /\ Set(t, [conn[t] EXCEPT !.pc = "add", !.ret = conn[t].sess, !.back = "notify"])
  <2> DEFINE c == [conn[t] EXCEPT !.pc = "add", !.ret = conn[t].sess, !.back = "notify"]
  <2>1. c \in Conns /\ c.pc = "add" /\ c.back = "notify" /\ c.sess = conn[t].sess /\ c.ret = conn[t].sess
    BY <1>1, <1>2 DEF Conns, PC, SessionOrNull
  <2>2. Set(t, c)
    BY <1>4
  <2> HIDE DEF c
  <2>3. Moves(t, c) /\ Fresh(conn[t])
    BY <1>1, <1>4, <2>1, <2>2 DEF Moves, Sources, Fresh
  <2>4. SameDead(mem, mem')
    BY <1>1, <1>2, <1>4, UpRefDead
  <2> QED BY <1>1, <2>1, <2>3, <2>4, QuietAlone
<1> QED BY <1>3, <1>4 DEF UpdateCache, k

LEMMA EvictDoneAlone == ASSUME Inv, Alone, NEW t \in Thread, EvictDone(t) PROVE Alone'
<1> DEFINE c == [conn[t] EXCEPT !.pc = conn[t].back, !.ret = IF conn[t].back = "given" THEN conn[t].ret ELSE Null]
<1>1. conn[t] \in Conns /\ conn[t].pc = "evict" /\ ConnOK(conn[t], lock = t)
  BY UsingNow DEF EvictDone, At
<1>2. conn[t].back = "notify"
  BY <1>1 DEF ConnOK, Alone, NoCallbacks
<1>3. c \in Conns /\ c.pc = "notify" /\ c.sess = conn[t].sess /\ c.ret = Null
  BY <1>1, <1>2 DEF Conns, PC, SessionOrNull
<1>4. Set(t, c) /\ UNCHANGED <<mem, cache, ext, pocket>>
  BY DEF EvictDone, k
<1> HIDE DEF c
<1>5. Moves(t, c) /\ ~Fresh(c)
  BY <1>3, <1>4 DEF Moves, Sources, Fresh
<1> QED BY <1>3, <1>4, <1>5, SameDeads, QuietAlone

LEMMA CloseAlone == ASSUME Inv, Alone, NEW t \in Thread, Close(t) PROVE Alone'
<1>1. conn[t] \in Conns /\ mem \in [Session -> Sessions] /\ UNCHANGED <<cache, ext, pocket>>
      /\ mem' = Free(mem, conn[t].sess) /\ Set(t, NoConn)
  BY UsingNow DEF Close, k
<1>2. NoConn \in Conns /\ NoConn.pc = "idle" /\ NoConn.sess = Null /\ NoConn.ret = Null
  BY DEF NoConn, Conns, PC, SessionOrNull
<1>3. Moves(t, NoConn) /\ ~Fresh(NoConn)
  BY <1>1, <1>2 DEF Moves, Sources, Fresh
<1>4. SameDead(mem, mem')
  BY <1>1, FreeDead DEF Conns
<1> QED BY <1>1, <1>2, <1>3, <1>4, QuietAlone

(* The connection stays as it is.                                           *)
LEMMA StayMoves ==
  ASSUME Inv, Alone, NEW t \in Thread, UNCHANGED conn
  PROVE  Moves(t, conn[t])
<1>1. conn[t] \in Conns /\ conn \in [Thread -> Conns]
  BY UsingNow DEF Inv, Types
<1>2. Set(t, conn[t])
  BY <1>1 DEF Set
<1> QED BY <1>1, <1>2 DEF Moves, Sources, Alone, NoCallbacks

LEMMA GetSessionAlone == ASSUME Inv, Alone, NEW t \in Thread, GetSession(t) PROVE Alone'
<1>1. /\ conn[t].pc = "up" /\ UNCHANGED <<conn, cache, ext>> /\ ConnOK(conn[t], lock = t)
      /\ mem' = UpRef(mem, conn[t].sess) /\ pocket' = conn[t].sess /\ mem \in [Session -> Sessions]
  BY UsingNow DEF GetSession, At, k
<1>2. conn[t].sess \in Session
  BY <1>1 DEF ConnOK, HasSess
<1>3. SameDead(mem, mem')
  BY <1>1, <1>2, UpRefDead
<1>4. Moves(t, conn[t]) /\ ~Fresh(conn[t])
  BY <1>1, StayMoves DEF Fresh
<1>5. ext' = {} /\ Cached(cache') \subseteq Cached(cache) \cup Gains(t, conn[t])
  BY <1>1 DEF Alone, NoCallbacks
<1>6. \A x \in Session : ~(mem'[x].dead /\ ~mem[x].dead)
  BY <1>3 DEF SameDead
<1> QED BY <1>1, <1>4, <1>5, <1>6, AloneStep

LEMMA DropSessionAlone == ASSUME Inv, Alone, DropSession PROVE Alone'
<1>1. UNCHANGED <<conn, cache, ext>> /\ mem' = Free(mem, pocket) /\ pocket' = Null
  BY DEF DropSession
<1>2. mem \in [Session -> Sessions] /\ pocket \in SessionOrNull
  BY PocketFacts
<1>3. SameDead(mem, mem')
  BY <1>1, <1>2, FreeDead
<1>4. PrivateInv'
  <2>1. ASSUME NEW u \in Thread, Fresh(conn[u])
        PROVE  LET s == conn[u].sess IN
               /\ s \notin Cached(cache) /\ s # pocket' /\ ~mem'[s].dead
               /\ \A v \in Thread \ {u} : conn[v].sess # s /\ conn[v].ret # s
    <3>1. conn[u].sess \in Session
      BY <2>1, FreshHas
    <3>2. ~mem'[conn[u].sess].dead
      BY <1>3, <2>1, <3>1 DEF SameDead, Alone, PrivateInv
    <3> QED BY <1>1, <2>1, <3>1, <3>2, Pointers DEF Alone, PrivateInv
  <2> QED BY <1>1, <2>1 DEF PrivateInv
<1>5. RevokedStayOut'
  BY <1>1, <1>3, CachedFacts DEF SameDead, RevokedStayOut, Alone
<1> QED BY <1>1, <1>4, <1>5 DEF Alone, NoCallbacks, GoneInv, FailureRemoves

LEMMA NotifyAlone ==
  ASSUME Inv, Alone, "external" \notin Features, NEW t \in Thread, Notify(t) PROVE Alone'
<1>1. Goto(t, "up") /\ UNCHANGED <<mem, cache, ext, pocket>> /\ "up" \in PC
  BY DEF Notify, PC
<1> QED BY <1>1, SameDeads, GotoAlone

LEMMA PlainAlone ==
  ASSUME Inv, Alone, NEW t \in Thread,
         NoOffer(t) \/ ClientHello(t) \/ Renegotiate(t) \/ Flush(t) \/ FlushDone(t)
  PROVE  Alone'
<1>1. PICK p \in {"new", "offered", "hello", "flush", "idle"} :
        Goto(t, p) /\ UNCHANGED <<mem, cache, ext, pocket>>
  BY DEF NoOffer, ClientHello, Renegotiate, Flush, FlushDone
<1>2. p \in PC \ {"ask", "store", "given", "add", "evict", "unlinked", "failed", "handshake"}
  BY DEF PC
<1> QED BY <1>1, <1>2, SameDeads, GotoAlone

(* A session that is removed is not in the cache afterwards, in which a     *)
(* session has one entry.                                                   *)
LEMMA OneEntry ==
  ASSUME Inv, NoRenewal, NEW s \in Session
  PROVE  /\ s \in Cached(cache) => <<mem[s].id, s>> \in cache.table
         /\ \A C : C.table = cache.table \ {<<mem[s].id, s>>} =>
              s \notin Cached(C) /\ Cached(C) \subseteq Cached(cache)
<1>1. \A e \in cache.table : e = <<mem[e[2]].id, e[2]>>
  BY CacheNow DEF Filed
<1>2. s \in Cached(cache) => <<mem[s].id, s>> \in cache.table
  BY <1>1 DEF Cached
<1>3. ASSUME NEW C, C.table = cache.table \ {<<mem[s].id, s>>}
      PROVE  s \notin Cached(C) /\ Cached(C) \subseteq Cached(cache)
  <2>1. \A e \in C.table : e \in cache.table /\ e[2] # s
    BY <1>1, <1>3
  <2> QED BY <2>1 DEF Cached
<1> QED BY <1>2, <1>3

LEMMA LessDead ==
  ASSUME Inv, NEW s \in Session, <<mem[s].id, s>> \in cache.table, mem[s].id \in Id
  PROVE  SameDead(mem, LessMem(mem, cache, s)) /\ LessMem(mem, cache, s) \in [Session -> Sessions]
<1>1. PICK i \in Id : i = mem[s].id
  OBVIOUS
<1>2. <<i, s>> \in cache.table /\ mem[s].id = i
  BY <1>1
<1> DEFINE N == LessMem(mem, cache, s)
           D == LessCache(mem, cache, i, s)
<1>3. /\ Counted(N, cache.table, ext, Places) /\ Relinked(mem, N)
      /\ D \in Caches /\ D.table = cache.table \ {<<i, s>>}
  BY <1>2, CacheNow, LessOne
<1> QED BY <1>3 DEF Relinked, SameDead

LEMMA RevokedDead ==
  ASSUME ext = {}, NEW M \in [Session -> Sessions], NEW s \in Session
  PROVE  \A x \in Session : x # s /\ Revoked(M, s)[x].dead => M[x].dead
<1>1. Revoked(M, s) = Free(Told(M, s), s)
  BY RevokedIs DEF Half
<1>2. Told(M, s) = [M EXCEPT ![s] = [M[s] EXCEPT !.dead = TRUE]]
  BY DEF Told
<1>3. M[s] \in Sessions /\ [M[s] EXCEPT !.dead = TRUE] \in Sessions
  BY DEF Sessions
<1>4. Told(M, s) \in [Session -> Sessions] /\ \A x \in Session : x # s => Told(M, s)[x] = M[x]
  BY <1>2, <1>3
<1>5. s \in SessionOrNull
  BY DEF SessionOrNull
<1>6. SameDead(Told(M, s), Revoked(M, s))
  BY <1>1, <1>4, <1>5, FreeDead
<1> QED BY <1>4, <1>6 DEF SameDead

(* A session that is evicted or flushed.                                    *)
LEMMA RemoveAlone ==
  ASSUME Inv, Alone, NoRenewal, NEW t \in Thread, UNCHANGED <<conn, pocket>>, NEW s \in Session,
         <<mem[s].id, s>> \in cache.table, mem[s].id \in Id,
         cache'.table = cache.table \ {<<mem[s].id, s>>},
         mem' = Revoked(LessMem(mem, cache, s), s), ext' = Dropped(s)
  PROVE  Alone'
<1> DEFINE N == LessMem(mem, cache, s)
<1>1. SameDead(mem, N) /\ N \in [Session -> Sessions]
  BY LessDead
<1>2. ext = {}
  BY DEF Alone, NoCallbacks
<1> HIDE DEF N
<1>3. \A x \in Session : x # s /\ mem'[x].dead => N[x].dead
  BY <1>1, <1>2, RevokedDead DEF N
<1>4. \A x \in Session : mem'[x].dead /\ ~mem[x].dead => x = s
  BY <1>1, <1>3 DEF SameDead
<1>5. s \notin Cached(cache') /\ Cached(cache') \subseteq Cached(cache)
  BY OneEntry
<1>6. s \in Cached(cache)
  BY DEF Cached
<1>7. \A u \in Thread : Fresh(conn[u]) => conn[u].sess # s
  BY <1>6 DEF Alone, PrivateInv
<1>8. ext' = {}
  BY <1>2 DEF Dropped
<1>9. Moves(t, conn[t])
  BY StayMoves
<1>10. /\ conn[t].pc = "unlinked" => conn[t].ret \notin Cached(cache')
       /\ conn[t].pc = "failed" /\ ~conn[t].switched => conn[t].sess \notin Cached(cache')
  BY <1>5 DEF Alone, GoneInv, FailureRemoves
<1> QED BY <1>4, <1>5, <1>7, <1>8, <1>9, <1>10, AloneStep

LEMMA FailAlone == ASSUME Inv, Alone, NoRenewal, NEW t \in Thread, Fail(t) PROVE Alone'
<1> DEFINE s == conn[t].sess
           r == Unlink(mem, cache, s)
<1>1. /\ conn[t] \in Conns /\ conn[t].pc \in {"handshake", "up"} /\ UNCHANGED <<ext, pocket>>
      /\ ConnOK(conn[t], lock = t)
      /\ \/ /\ r.found /\ mem' = r.mem /\ cache' = r.cache
            /\ Set(t, [conn[t] EXCEPT !.pc = "unlinked", !.ret = s, !.back = "failed"])
         \/ Goto(t, "failed") /\ UNCHANGED <<mem, cache>> /\ (~conn[t].switched => ~r.found)
  BY UsingNow DEF Fail, At, k
<1>2. s \in Session /\ ext' = {}
  BY <1>1 DEF ConnOK, HasSess, Alone, NoCallbacks
<1>3. CASE Goto(t, "failed") /\ UNCHANGED <<mem, cache>> /\ (~conn[t].switched => ~r.found)
  <2>1. ~r.found => s \notin Cached(cache)
    BY <1>2, Unlinks, OneEntry
  <2>2. "failed" \in PC
    BY DEF PC
  <2>3. PICK c : Moves(t, c) /\ c.pc = "failed" /\ c.sess = s /\ c.switched = conn[t].switched
    BY <1>3, <2>2, GotoMoves
  <2> HIDE DEF s, r
  <2>4. ~Fresh(c) /\ (~c.switched => c.sess \notin Cached(cache'))
    BY <1>3, <2>1, <2>3 DEF Fresh
  <2> QED BY <1>1, <1>2, <1>3, <2>3, <2>4, AloneStep
<1>4. CASE /\ r.found /\ mem' = r.mem /\ cache' = r.cache
           /\ Set(t, [conn[t] EXCEPT !.pc = "unlinked", !.ret = s, !.back = "failed"])
  <2> DEFINE c == [conn[t] EXCEPT !.pc = "unlinked", !.ret = s, !.back = "failed"]
  <2>1. /\ mem[s].id \in Id /\ <<mem[s].id, s>> \in cache.table /\ mem' = LessMem(mem, cache, s)
    BY <1>2, <1>4, Unlinks
  <2>2. cache'.table = cache.table \ {<<mem[s].id, s>>}
    BY <1>2, <1>4, UnlinkShrinks
  <2>3. s \notin Cached(cache') /\ Cached(cache') \subseteq Cached(cache)
    BY <1>2, <2>2, OneEntry
  <2>4. SameDead(mem, mem')
    BY <1>2, <2>1, LessDead
  <2>5. c \in Conns /\ c.pc = "unlinked" /\ c.back = "failed" /\ c.sess = s /\ c.ret = s
    BY <1>1, <1>2 DEF Conns, PC, SessionOrNull
  <2>6. Set(t, c)
    BY <1>4
  <2> HIDE DEF c
  <2>7. Moves(t, c) /\ ~Fresh(c)
    BY <2>5, <2>6 DEF Moves, Sources, Fresh
  <2>8. \A x \in Session : ~(mem'[x].dead /\ ~mem[x].dead)
    BY <2>4 DEF SameDead
  <2> HIDE DEF s, r
  <2> QED BY <1>1, <1>2, <2>3, <2>5, <2>7, <2>8, AloneStep
<1> QED BY <1>1, <1>3, <1>4

LEMMA RemoveExpiredAlone == ASSUME Inv, Alone, NoRenewal, NEW t \in Thread, RemoveExpired(t) PROVE Alone'
<1> DEFINE s == conn[t].ret
           r == Unlink(mem, cache, s)
<1>1. /\ conn[t] \in Conns /\ conn[t].pc = "expired" /\ UNCHANGED <<ext, pocket>>
      /\ ConnOK(conn[t], lock = t)
      /\ \/ /\ r.found /\ mem' = r.mem /\ cache' = r.cache
            /\ Set(t, [conn[t] EXCEPT !.pc = "unlinked", !.back = "release"])
         \/ Goto(t, "release") /\ UNCHANGED <<mem, cache>>
  BY UsingNow DEF RemoveExpired, At, k
<1>2. s \in Session /\ ext' = {}
  BY <1>1 DEF ConnOK, HasRet, Alone, NoCallbacks
<1>3. CASE Goto(t, "release") /\ UNCHANGED <<mem, cache>>
  <2>1. "release" \in PC
    BY DEF PC
  <2> QED BY <1>1, <1>3, <2>1, SameDeads, GotoAlone
<1>4. CASE /\ r.found /\ mem' = r.mem /\ cache' = r.cache
           /\ Set(t, [conn[t] EXCEPT !.pc = "unlinked", !.back = "release"])
  <2> DEFINE c == [conn[t] EXCEPT !.pc = "unlinked", !.back = "release"]
  <2>1. /\ mem[s].id \in Id /\ <<mem[s].id, s>> \in cache.table /\ mem' = LessMem(mem, cache, s)
    BY <1>2, <1>4, Unlinks
  <2>2. cache'.table = cache.table \ {<<mem[s].id, s>>}
    BY <1>2, <1>4, UnlinkShrinks
  <2>3. s \notin Cached(cache') /\ Cached(cache') \subseteq Cached(cache)
    BY <1>2, <2>2, OneEntry
  <2>4. SameDead(mem, mem')
    BY <1>2, <2>1, LessDead
  <2>5. c \in Conns /\ c.pc = "unlinked" /\ c.back = "release" /\ c.sess = conn[t].sess /\ c.ret = s
    BY <1>1, <1>2 DEF Conns, PC, SessionOrNull
  <2>6. Set(t, c)
    BY <1>4
  <2> HIDE DEF c
  <2>7. Moves(t, c) /\ ~Fresh(c)
    BY <2>5, <2>6 DEF Moves, Sources, Fresh
  <2>8. \A x \in Session : ~(mem'[x].dead /\ ~mem[x].dead)
    BY <2>4 DEF SameDead
  <2> HIDE DEF s, r
  <2> QED BY <1>1, <1>2, <2>3, <2>5, <2>7, <2>8, AloneStep
<1> QED BY <1>1, <1>3, <1>4

LEMMA RevokeAlone == ASSUME Inv, Alone, NEW t \in Thread, Revoke(t) PROVE Alone'
<1> DEFINE s == conn[t].ret
           c == [conn[t] EXCEPT !.pc = conn[t].back, !.ret = IF conn[t].back = "release" THEN s ELSE Null]
<1>1. conn[t] \in Conns /\ conn[t].pc = "unlinked" /\ mem \in [Session -> Sessions]
      /\ UNCHANGED <<cache, pocket>> /\ Set(t, c)
      /\ ConnOK(conn[t], lock = t) /\ mem' = Revoked(mem, s) /\ ext' = Dropped(s)
  BY UsingNow DEF Revoke, At, k
<1>2. s \in Session
      /\ (conn[t].back = "release" \/ (conn[t].back = "failed" /\ conn[t].sess = s))
  BY <1>1 DEF ConnOK, HasRet
<1>3. /\ c \in Conns /\ c.pc = conn[t].back /\ c.sess = conn[t].sess
      /\ c.ret = IF conn[t].back = "release" THEN s ELSE Null
  BY <1>1, <1>2 DEF Conns, PC, SessionOrNull
<1> HIDE DEF c
<1>4. ext = {} /\ ext' = {} /\ s \notin Cached(cache)
  BY <1>1 DEF Alone, NoCallbacks, GoneInv, Dropped
<1>5. \A x \in Session : x # s /\ mem'[x].dead => mem[x].dead
  BY <1>1, <1>2, <1>4, RevokedDead
<1>6. \A u \in Thread : Fresh(conn[u]) => conn[u].sess # s
  <2>1. ~Fresh(conn[t])
    BY <1>1 DEF Fresh
  <2> QED BY <2>1 DEF Alone, PrivateInv
<1>7. Moves(t, c) /\ ~Fresh(c)
  BY <1>1, <1>2, <1>3 DEF Moves, Sources, Fresh
<1>8. /\ c.pc = "failed" => c.sess \notin Cached(cache')
      /\ c.pc # "unlinked"
  BY <1>1, <1>2, <1>3, <1>4
<1>9. \A x \in Session : mem'[x].dead /\ ~mem[x].dead =>
           x \notin Cached(cache') /\ \A u \in Thread : Fresh(conn[u]) => conn[u].sess # x
  BY <1>1, <1>4, <1>5, <1>6
<1> QED BY <1>1, <1>4, <1>7, <1>8, <1>9, AloneStep

-----------------------------------------------------------------------------
(* What is inserted, and where.                                             *)

SameLinks(M, N) == \A x \in Session : N[x].prev = M[x].prev /\ N[x].next = M[x].next
SameIds(M, N) == \A x \in Session : N[x].live => M[x].live /\ N[x].id = M[x].id

LEMMA LinksList ==
  ASSUME NEW q, NEW M, NEW C, IsList(q, M, C), NEW N, SameLinks(M, N)
  PROVE  IsList(q, N, C)
<1>1. \A i \in 1..Len(q) : q[i] \in Session
  BY ElementOfSeq DEF IsList
<1> QED BY <1>1 DEF IsList, SameLinks

LEMMA FreeLinks ==
  ASSUME NEW M \in [Session -> Sessions], NEW s \in Session, M[s].prev = Null, M[s].next = Null
  PROVE  SameLinks(M, Free(M, s))
<1>1. Free(M, s) = [M EXCEPT ![s] = IF M[s].refs = 1 THEN Blank ELSE [M[s] EXCEPT !.refs = M[s].refs - 1]]
  BY Pointers DEF Free
<1>2. M[s] \in Sessions /\ M[s].refs \in Nat
  BY DEF Sessions
<1>3. [M[s] EXCEPT !.refs = M[s].refs - 1].prev = Null /\ [M[s] EXCEPT !.refs = M[s].refs - 1].next = Null
  BY <1>2 DEF Sessions
<1>4. Free(M, s)[s].prev = Null /\ Free(M, s)[s].next = Null
  BY <1>1, <1>3, BlankFacts
<1>5. \A x \in Session : x # s => Free(M, s)[x] = M[x]
  BY <1>1
<1> QED BY <1>4, <1>5 DEF SameLinks

LEMMA Unlinked ==
  ASSUME NEW q, NEW M, NEW C, IsList(q, M, C), NEW s \in Session, s \notin Elements(q)
  PROVE  M[s].prev = Null /\ M[s].next = Null
BY DEF IsList, Elements

(* Session s goes to the head of the list, which had been q.                *)
PutCache(M, C, F, i, s) == [ListAdd(M, C, s).cache EXCEPT !.table = (@ \ F) \cup {<<i, s>>}]
LEMMA PutFirst ==
  ASSUME NEW M \in [Session -> Sessions], NEW C \in Caches, NEW q, IsList(q, M, C),
         NEW s \in Session, s \notin Elements(q), NEW F, NEW i \in Id,
         NEW N, N = AddMem(M, C, s),
         NEW D, D = PutCache(M, C, F, i, s)
  PROVE  IsList(Push(s, q), N, D) /\ Relinked(M, N) /\ D.table = (C.table \ F) \cup {<<i, s>>}
<1> DEFINE R == ListAdd(M, C, s)
<1>1. /\ IsList(Push(s, q), R.mem, R.cache) /\ Relinked(M, R.mem)
      /\ R.cache \in Caches /\ R.cache.table = C.table
  BY AddUnlinked
<1>2. N = R.mem /\ D = [R.cache EXCEPT !.table = (@ \ F) \cup {<<i, s>>}]
  BY DEF AddMem, PutCache
<1> HIDE DEF R
<1>3. D.head = R.cache.head /\ D.tail = R.cache.tail /\ D.table = (C.table \ F) \cup {<<i, s>>}
  BY <1>1, <1>2 DEF Caches
<1> QED BY <1>1, <1>2, <1>3 DEF IsList

(* The session that makes way.                                              *)
LEMMA TakeOut ==
  ASSUME Inv, NEW q, IsList(q, mem, cache), NEW n \in 1..Len(q), mem[q[n]].live
  PROVE  /\ q[n] \in Session
         /\ OutMem(q[n]) \in [Session -> Sessions] /\ OutCache(q[n]) \in Caches
         /\ OutCache(q[n]).table = cache.table
         /\ IsList(Cut(q, n), OutMem(q[n]), OutCache(q[n])) /\ Elements(Cut(q, n)) = Elements(q) \ {q[n]}
         /\ SameIds(mem, OutMem(q[n])) /\ SameDead(mem, OutMem(q[n]))
<1> DEFINE o == q[n]
           R == ListRemove(mem, cache, o)
<1>1. mem \in [Session -> Sessions] /\ cache \in Caches
  BY PocketFacts, CacheNow
<1>2. o \in Session
  BY <1>1, ListElements
<1>3. /\ IsList(Cut(q, n), R.mem, R.cache) /\ Relinked(mem, R.mem)
      /\ R.cache \in Caches /\ R.cache.table = cache.table
      /\ Elements(Cut(q, n)) = Elements(q) \ {o}
  BY <1>1, RemoveLinked
<1>4. OutMem(o) = Free(R.mem, o) /\ OutCache(o) = R.cache
  BY DEF OutMem, OutCache
<1> HIDE DEF R, o
<1>5. R.mem \in [Session -> Sessions] /\ o \in SessionOrNull
  BY <1>2, <1>3 DEF Relinked, SessionOrNull
<1>6. R.mem[o].prev = Null /\ R.mem[o].next = Null
  BY <1>2, <1>3, Unlinked
<1>7. SameLinks(R.mem, OutMem(o))
  BY <1>2, <1>4, <1>5, <1>6, FreeLinks
<1>8. IsList(Cut(q, n), OutMem(o), OutCache(o))
  BY <1>3, <1>4, <1>7, LinksList
<1>9. Old(R.mem, OutMem(o)) /\ SameDead(R.mem, OutMem(o))
  BY <1>4, <1>5, FreeFacts, FreeDead
<1>10. SameIds(mem, OutMem(o)) /\ SameDead(mem, OutMem(o))
  BY <1>3, <1>9 DEF Old, Relinked, SameIds, SameDead
<1>11. OutMem(o) \in [Session -> Sessions]
  <2>1. R.mem[o] \in Sessions /\ R.mem[o].refs \in Nat
    BY <1>2, <1>5 DEF Sessions
  <2>2. CASE R.mem[o].refs = 1
    BY <1>2, <1>4, <1>5, <2>2, BlankFacts, Pointers DEF Free
  <2>3. CASE R.mem[o].refs # 1
    <3>1. OutMem(o) = [R.mem EXCEPT ![o] = [R.mem[o] EXCEPT !.refs = R.mem[o].refs - 1]]
      BY <1>2, <1>4, <2>3, Pointers DEF Free
    <3>2. R.mem[o].refs # 0
      <4>1. Sound(mem, HoldersIn(cache.table, ext, Places)) /\ mem[o].live
        BY DEF Inv, CountInv, Counted, o
      <4>2. mem[o].refs # 0
        BY <1>2, <4>1 DEF Sound
      <4> QED BY <1>2, <1>3, <4>2 DEF Relinked
    <3>3. [R.mem[o] EXCEPT !.refs = R.mem[o].refs - 1] \in Sessions
      BY <2>1, <3>2 DEF Sessions
    <3> QED BY <1>2, <1>5, <3>1, <3>3
  <2> QED BY <2>2, <2>3
<1> QED BY <1>2, <1>3, <1>4, <1>8, <1>10, <1>11 DEF o

(* What SSL_CTX_add_session does.                                           *)
LEMMA AddSummary ==
  ASSUME Inv, NoRenewal, NEW t \in Thread, AddSession(t), NEW q, IsList(q, mem, cache),
         Elements(q) = Cached(cache), NEW s, s = conn[t].ret, NEW i, i = mem[s].id
  PROVE  /\ conn[t].pc = "add" /\ lock = Null /\ s \in Session /\ i \in Id
         /\ UNCHANGED <<ext, pocket, now>>
         /\ \/ /\ s \in Cached(cache) /\ mem' = Free(mem, s)
               /\ Set(t, [conn[t] EXCEPT !.pc = IF conn[t].back = "notify" THEN "up" ELSE conn[t].back,
                                         !.ret = IF conn[t].back = "given" THEN @ ELSE Null])
               /\ UNCHANGED <<cache, lock>>
            \/ /\ s \notin Cached(cache) /\ Goto(t, "evict") /\ lock' = t
               /\ cache'.table = (cache.table \ Find(mem, cache, i)) \cup {<<i, s>>}
               /\ SameIds(mem, mem') /\ SameDead(mem, mem')
               /\ \/ Find(mem, cache, i) = {} /\ IsList(Push(s, q), mem', cache')
                  \/ \E n \in 1..Len(q) : mem[q[n]].id = i /\ IsList(Push(s, Cut(q, n)), mem', cache')
<1>1. /\ conn[t] \in Conns /\ conn[t].pc = "add" /\ lock = Null /\ UNCHANGED <<ext, pocket, now>>
      /\ ConnOK(conn[t], lock = t) /\ mem \in [Session -> Sessions] /\ cache \in Caches
      /\ Places \in [Place -> SessionOrNull]
      /\ Using(mem, cache.table, ext, Places, t, Use(conn[t], "sess"), Use(conn[t], "ret"), Use(conn[t], "more"))
  BY UsingNow, CacheNow DEF AddSession, At
<1>2. s \in Session
  BY <1>1 DEF ConnOK, HasRet
<1>3. Use(conn[t], "ret") = s
  BY <1>1, UseFacts
<1>4. mem[s].live
  BY <1>1, <1>2, <1>3, UsingFacts
<1>5. i \in Id
  <2>1. Sound(mem, HoldersIn(cache.table, ext, Places))
    BY DEF Inv, CountInv, Counted
  <2> QED BY <1>2, <1>4, <2>1 DEF Sound
<1> DEFINE F == Find(mem, cache, i)
<1>6. \A e : e \in F <=> e \in cache.table /\ e[1] = i /\ mem[e[2]].id = i
  BY DEF Find
<1>7. \A e \in F : e[2] \in Cached(cache)
  BY <1>6 DEF Cached
<1>8. s \in Cached(cache) <=> \E e \in F : e[2] = s
  <2>1. \A e \in cache.table : e[2] = s => e[1] = i
    BY CacheNow DEF Filed
  <2> QED BY <1>6, <2>1 DEF Cached
<1>9. CASE F = {} /\ mem' = AddMem(mem, cache, s)
           /\ cache' = [ListAdd(mem, cache, s).cache EXCEPT !.table = (@ \ F) \cup {<<i, s>>}]
           /\ lock' = t /\ Goto(t, "evict")
  <2>1. s \notin Elements(q)
    BY <1>8, <1>9
  <2>2. IsList(Push(s, q), mem', cache') /\ Relinked(mem, mem') /\ cache'.table = (cache.table \ F) \cup {<<i, s>>}
    <3>1. mem' = AddMem(mem, cache, s) /\ cache' = PutCache(mem, cache, F, i, s)
      BY <1>9 DEF PutCache
    <3> HIDE DEF F
    <3> QED BY <1>1, <1>2, <1>5, <2>1, <3>1, PutFirst
  <2>3. SameIds(mem, mem') /\ SameDead(mem, mem')
    BY <2>2 DEF Relinked, SameIds, SameDead
  <2> QED BY <1>1, <1>2, <1>5, <1>9, <2>1, <2>2, <2>3
<1>10. CASE \E o \in Others(s, i) :
            /\ mem' = AddMem(OutMem(o), OutCache(o), s)
            /\ cache' = [ListAdd(OutMem(o), OutCache(o), s).cache EXCEPT !.table = (@ \ F) \cup {<<i, s>>}]
            /\ lock' = t /\ Goto(t, "evict")
  <2>1. PICK o \in Others(s, i) :
            /\ mem' = AddMem(OutMem(o), OutCache(o), s)
            /\ cache' = [ListAdd(OutMem(o), OutCache(o), s).cache EXCEPT !.table = (@ \ F) \cup {<<i, s>>}]
            /\ lock' = t /\ Goto(t, "evict")
    BY <1>10
  <2>2. PICK e \in F : e[2] = o /\ o # s
    BY <2>1 DEF Others
  <2>3. o \in Cached(cache) /\ mem[o].id = i /\ mem[o].live
    BY <1>6, <1>7, <2>2, CachedFacts
  <2> s \notin Cached(cache)
    <3>1. \A f \in F : f = e
      BY <1>6, <2>2, CacheNow DEF Unique
    <3> QED BY <1>8, <2>2, <3>1
  <2>4. PICK n \in 1..Len(q) : q[n] = o
    BY <2>3 DEF Elements
  <2>5. /\ OutMem(o) \in [Session -> Sessions] /\ OutCache(o) \in Caches /\ OutCache(o).table = cache.table
        /\ IsList(Cut(q, n), OutMem(o), OutCache(o)) /\ Elements(Cut(q, n)) = Elements(q) \ {o}
        /\ SameIds(mem, OutMem(o)) /\ SameDead(mem, OutMem(o))
    BY <2>3, <2>4, TakeOut
  <2>6. s \notin Elements(Cut(q, n))
    BY <2>5
  <2>7. /\ IsList(Push(s, Cut(q, n)), mem', cache') /\ Relinked(OutMem(o), mem')
        /\ cache'.table = (OutCache(o).table \ F) \cup {<<i, s>>}
    <3>1. mem' = AddMem(OutMem(o), OutCache(o), s) /\ cache' = PutCache(OutMem(o), OutCache(o), F, i, s)
      BY <2>1 DEF PutCache
    <3> HIDE DEF F
    <3> QED BY <1>2, <1>5, <2>5, <2>6, <3>1, PutFirst
  <2>8. SameIds(mem, mem') /\ SameDead(mem, mem')
    BY <2>5, <2>7 DEF Relinked, SameIds, SameDead
  <2> QED BY <1>1, <1>2, <1>5, <2>1, <2>3, <2>4, <2>5, <2>7, <2>8
<1>11. CASE /\ F # {} /\ Others(s, i) = {} /\ mem' = Free(mem, s)
            /\ Set(t, [conn[t] EXCEPT !.pc = IF conn[t].back = "notify" THEN "up" ELSE conn[t].back,
                                      !.ret = IF conn[t].back = "given" THEN @ ELSE Null])
            /\ UNCHANGED <<cache, lock>>
  <2>1. s \in Cached(cache)
    BY <1>8, <1>11 DEF Others
  <2> QED BY <1>1, <1>2, <1>5, <1>11, <2>1
<1>12. s = conn[t].ret /\ i = mem[s].id
  OBVIOUS
<1> HIDE DEF F
<1> QED BY <1>9, <1>10, <1>11, <1>12, AddCases DEF F

LEMMA AddAlone == ASSUME Inv, Alone, NoRenewal, NEW t \in Thread, AddSession(t) PROVE Alone'
<1>1. PICK q : IsList(q, mem, cache) /\ Elements(q) = Cached(cache)
  BY DEF Inv, LinkedInv, Linked
<1> DEFINE s == conn[t].sess
           i == mem[s].id
           c == [conn[t] EXCEPT !.pc = "evict"]
<1>3. /\ conn[t] \in Conns /\ conn[t].pc = "add" /\ ConnOK(conn[t], lock = t)
  BY UsingNow DEF AddSession, At
<1>4. conn[t].back = "notify" /\ conn[t].ret = s /\ s \notin Cached(cache)
  BY <1>3 DEF ConnOK, Alone, NoCallbacks, PrivateInv, Fresh
<1>2. /\ s \in Session /\ i \in Id /\ Goto(t, "evict") /\ UNCHANGED <<ext, pocket>>
      /\ cache'.table = (cache.table \ Find(mem, cache, i)) \cup {<<i, s>>} /\ SameDead(mem, mem')
  <2> HIDE DEF s, i
  <2>1. s = conn[t].ret /\ i = mem[s].id
    BY <1>4 DEF i
  <2> QED BY <1>1, <1>4, <2>1, AddSummary
<1>5. c \in Conns /\ c.pc = "evict" /\ c.sess = s /\ c.ret = conn[t].ret /\ c.back = "notify"
  BY <1>3, <1>4 DEF Conns, PC
<1>6. Set(t, c)
  BY <1>2 DEF Goto, k
<1> HIDE DEF c
<1>7. Moves(t, c) /\ Fresh(conn[t]) /\ ~Fresh(c)
  BY <1>3, <1>4, <1>5, <1>6 DEF Moves, Sources, Fresh
<1>8. ext' = {} /\ pocket' = pocket
  BY <1>2 DEF Alone, NoCallbacks
<1>9. Cached(cache') \subseteq Cached(cache) \cup Gains(t, c)
  <2>1. Gains(t, c) = {s}
    BY <1>7 DEF Gains
  <2>2. ASSUME NEW e \in cache'.table PROVE e[2] \in Cached(cache) \cup {s}
    <3>1. CASE e \in cache.table
      BY <3>1 DEF Cached
    <3>2. CASE e = <<i, s>>
      BY <3>2
    <3> QED BY <1>2, <3>1, <3>2
  <2> QED BY <2>1, <2>2 DEF Cached
<1>10. \A x \in Session : ~(mem'[x].dead /\ ~mem[x].dead)
  BY <1>2 DEF SameDead
<1> QED BY <1>5, <1>7, <1>8, <1>9, <1>10, AloneStep

LEMMA NextAlone ==
  ASSUME Inv, Alone, NoRenewal, "external" \notin Features, [Next]_vars
  PROVE  Alone'
<1>1. CASE UNCHANGED <<mem, cache, conn, ext, pocket>>
  BY <1>1 DEF Alone, PrivateInv, NoCallbacks, GoneInv, FailureRemoves, RevokedStayOut
<1>2. CASE UNCHANGED vars \/ Tick
  BY <1>1, <1>2 DEF vars, Tick
<1>3. CASE DropSession
  BY <1>3, DropSessionAlone
<1>4. ASSUME NEW t \in Thread, ThreadStep(t) PROVE Alone'
  <2>1. CASE OtherContext(t) \/ Release(t)
    <3>1. /\ mem' = Free(mem, conn[t].ret) /\ Set(t, [conn[t] EXCEPT !.ret = Null, !.pc = "new"])
          /\ UNCHANGED <<cache, ext, pocket>>
      BY <2>1 DEF OtherContext, Release, k
    <3> QED BY <3>1, LetGoAlone
  <2>2. CASE EvictMore(t)
    <3>1. PICK s \in Session : /\ UNCHANGED <<conn, pocket>>
                               /\ <<mem[s].id, s>> \in cache.table /\ mem[s].id \in Id
                               /\ cache'.table = cache.table \ {<<mem[s].id, s>>}
                               /\ mem' = Revoked(LessMem(mem, cache, s), s) /\ ext' = Dropped(s)
      BY <2>2, EvictTable
    <3> QED BY <3>1, RemoveAlone
  <2>3. CASE FlushOne(t)
    <3>1. PICK s \in Session : /\ UNCHANGED <<conn, pocket>>
                               /\ <<mem[s].id, s>> \in cache.table /\ mem[s].id \in Id
                               /\ cache'.table = cache.table \ {<<mem[s].id, s>>}
                               /\ mem' = Revoked(LessMem(mem, cache, s), s) /\ ext' = Dropped(s)
      BY <2>3, FlushOneTable DEF NoLateFlush
    <3> QED BY <3>1, RemoveAlone
  <2>4. ~AskApplication(t) /\ ~StoreGiven(t)
    BY DEF AskApplication, StoreGiven, At, Alone, NoCallbacks
  <2> QED BY <1>4, <2>1, <2>2, <2>3, <2>4, StartAlone, SetSessionAlone, UseFoundAlone, NewSessionAlone,
             NoSessionAlone, ServerHelloMissAlone, ServerHelloHitAlone, SwitchAlone, UpdateCacheAlone,
             AddAlone, EvictDoneAlone, NotifyAlone, PlainAlone, FailAlone, RemoveExpiredAlone,
             RevokeAlone, CloseAlone, GetSessionAlone DEF ThreadStep
<1>5. CASE \E t \in Thread, i \in Id : Lookup(t, i)
  BY <1>5, LookupAlone
<1> QED BY <1>2, <1>3, <1>4, <1>5 DEF Next

LEMMA InitAlone == Init => Alone
<1> SUFFICES ASSUME Init PROVE Alone
  OBVIOUS
<1>1. /\ cache = [table |-> {}, head |-> Null, tail |-> Null]
      /\ \A t \in Thread : conn[t] = NoConn
      /\ ext = {}
  BY DEF Init
<1>2. NoConn.pc = "idle"
  BY DEF NoConn
<1>3. \A t \in Thread : conn[t].pc = "idle"
  BY <1>1, <1>2
<1>4. Cached(cache) = {}
  BY <1>1 DEF Cached
<1> QED BY <1>1, <1>3, <1>4 DEF Alone, PrivateInv, Fresh, NoCallbacks, GoneInv, FailureRemoves, RevokedStayOut

LEMMA SpecAlone == ASSUME NoRenewal, "external" \notin Features PROVE Spec => []Alone
<1>1. NoLateFlush
  BY DEF NoLateFlush
<1>2. Spec => []Inv
  BY <1>1, SpecInv
<1>3. Inv /\ Alone /\ [Next]_vars => Alone'
  BY NextAlone
<1> QED BY <1>2, <1>3, InitAlone, PTL DEF Spec

(* No session that was evicted, flushed or revoked by a connection that     *)
(* failed can be found in the cache again: who still uses one cannot bring  *)
(* it back, because only a connection's own new session is ever added       *)
(* (not_resumable; ssl_update_cache, remove_session_lock).                  *)
THEOREM RevokedAreOut ==
  ASSUME NoRenewal, "external" \notin Features PROVE Spec => []RevokedStayOut
BY SpecAlone, PTL DEF Alone

(* The session of a connection that failed is out of the cache, and no      *)
(* other connection puts it back (ssl3_send_alert, ssl_clear_bad_session).  *)
THEOREM FailuresAreOut ==
  ASSUME NoRenewal, "external" \notin Features PROVE Spec => []FailureRemoves
BY SpecAlone, PTL DEF Alone

-----------------------------------------------------------------------------
(* What the pointers, buckets and counts behave as: a bounded store.        *)

(* Most steps leave the cache alone, and what is in it.                     *)
LEMMA NullIs == Null \in SessionOrNull /\ Session \subseteq SessionOrNull
BY DEF SessionOrNull

LEMMA UsesKeep ==
  ASSUME Inv, NEW t \in Thread, NEW c, Set(t, c),
         \/ UNCHANGED mem
         \/ \E s \in Session : mem' = UpRef(mem, s)
         \/ \E s \in SessionOrNull : mem' = Free(mem, s)
         \/ \E s \in Session, x \in SessionOrNull : mem' = Free(UpRef(mem, s), x)
  PROVE  Kept(mem, mem')
<1>1. mem \in [Session -> Sessions]
  BY PocketFacts
<1>2. CASE UNCHANGED mem
  BY <1>2, OldSame, OldIsKept
<1>3. ASSUME NEW s \in Session, mem' = UpRef(mem, s) PROVE Kept(mem, mem')
  BY <1>1, <1>3, UpRefFacts, OldIsKept
<1>4. ASSUME NEW s \in SessionOrNull, mem' = Free(mem, s) PROVE Kept(mem, mem')
  BY <1>1, <1>4, FreeFacts, OldIsKept
<1>5. ASSUME NEW s \in Session, NEW x \in SessionOrNull, mem' = Free(UpRef(mem, s), x) PROVE Kept(mem, mem')
  <2>1. UpRef(mem, s) \in [Session -> Sessions] /\ Old(mem, UpRef(mem, s))
    BY <1>1, UpRefFacts
  <2>2. Old(UpRef(mem, s), mem')
    BY <1>5, <2>1, FreeFacts
  <2> QED BY <2>1, <2>2, OldOld, OldIsKept
<1> QED BY <1>2, <1>3, <1>4, <1>5

LEMMA FreeType ==
  ASSUME NEW M \in [Session -> Sessions], NEW s \in Session, M[s].refs # 0
  PROVE  Free(M, s) \in [Session -> Sessions]
<1>1. M[s] \in Sessions /\ M[s].refs \in Nat
  BY DEF Sessions
<1>2. CASE M[s].refs = 1
  BY <1>2, BlankFacts, Pointers DEF Free
<1>3. CASE M[s].refs # 1
  <2>1. Free(M, s) = [M EXCEPT ![s] = [M[s] EXCEPT !.refs = M[s].refs - 1]]
    BY <1>3, Pointers DEF Free
  <2>2. [M[s] EXCEPT !.refs = M[s].refs - 1] \in Sessions
    BY <1>1 DEF Sessions
  <2> QED BY <2>1, <2>2
<1> QED BY <1>2, <1>3

LEMMA RevokedKeep ==
  ASSUME NEW M \in [Session -> Sessions], NEW s \in Session, M[s].refs # 0
  PROVE  Old(M, Revoked(M, s))
<1> DEFINE N == Told(M, s)
<1>1. N = [M EXCEPT ![s] = [M[s] EXCEPT !.dead = TRUE]]
  BY DEF Told
<1>2. M[s] \in Sessions
  OBVIOUS
<1>3. /\ [M[s] EXCEPT !.dead = TRUE] \in Sessions
      /\ [M[s] EXCEPT !.dead = TRUE].refs = M[s].refs /\ [M[s] EXCEPT !.dead = TRUE].live = M[s].live
      /\ [M[s] EXCEPT !.dead = TRUE].id = M[s].id
      /\ [M[s] EXCEPT !.dead = TRUE].prev = M[s].prev /\ [M[s] EXCEPT !.dead = TRUE].next = M[s].next
  BY <1>2 DEF Sessions
<1>4. N \in [Session -> Sessions] /\ N[s].refs # 0 /\ Old(M, N)
  BY <1>1, <1>3 DEF Old
<1> HIDE DEF N
<1>5. s \in SessionOrNull
  BY NullIs
<1>6. CASE s \in ext
  <2>1. Free(N, s) \in [Session -> Sessions]
    BY <1>4, FreeType
  <2>2. Revoked(M, s) = Free(Free(N, s), s)
    BY <1>6, RevokedIs DEF Half, N
  <2>3. Old(N, Free(N, s)) /\ Old(Free(N, s), Revoked(M, s))
    BY <1>4, <1>5, <2>1, <2>2, FreeFacts
  <2> QED BY <1>4, <2>3, OldOld
<1>7. CASE s \notin ext
  <2>1. Revoked(M, s) = Free(N, s)
    BY <1>7, RevokedIs DEF Half, N
  <2>2. Old(N, Revoked(M, s))
    BY <1>4, <1>5, <2>1, FreeFacts
  <2> QED BY <1>4, <2>2, OldOld
<1> QED BY <1>6, <1>7

(* The reply of a connection that is not at "found" has been used.          *)
Replies(K) == [t \in Thread |-> IF K[t].pc = "found" THEN <<K[t].want, K[t].ret>> ELSE Null]
Ids(M) == [s \in Session |-> M[s].id]
Forgotten(J, K) == \A t \in Thread : Replies(K)[t] \in {Replies(J)[t], Null}

LEMMA Forgetting ==
  ASSUME Inv, NEW t \in Thread, NEW c, Set(t, c), c.pc # "found"
  PROVE  Forgotten(conn, conn')
<1>1. conn \in [Thread -> Conns] /\ conn' = [conn EXCEPT ![t] = c]
  BY DEF Inv, Types, Set
<1>2. conn'[t] = c /\ \A u \in Thread : u # t => conn'[u] = conn[u]
  BY <1>1
<1>3. \A u \in Thread : Replies(conn')[u] = Replies(conn)[u] \/ Replies(conn')[u] = Null
  BY <1>2 DEF Replies
<1> QED BY <1>3 DEF Forgotten

LEMMA ForgetGoto ==
  ASSUME Inv, NEW t \in Thread, NEW p \in PC, p # "found", Goto(t, p)
  PROVE  Forgotten(conn, conn')
<1>1. conn[t] \in Conns
  BY UsingNow
<1>2. Set(t, [conn[t] EXCEPT !.pc = p]) /\ [conn[t] EXCEPT !.pc = p].pc = p
  BY <1>1 DEF Goto, k, Conns
<1> QED BY <1>2, Forgetting

LEMMA SameForgotten == ASSUME UNCHANGED conn PROVE Forgotten(conn, conn')
BY DEF Forgotten

(* A step that leaves the cache alone, but for a session that is found.     *)
Mild == Kept(mem, mem') /\ Forgotten(conn, conn')

LEMMA MildPlain ==
  ASSUME Inv, NEW t \in Thread, Start(t) \/ NoOffer(t) \/ ClientHello(t) \/ Renegotiate(t) \/ Flush(t) \/ FlushDone(t)
  PROVE  Mild
<1>1. UNCHANGED mem
  BY DEF Start, NoOffer, ClientHello, Renegotiate, Flush, FlushDone
<1>2. CASE Start(t)
  <2>1. PICK role \in Roles : Set(t, [NoConn EXCEPT !.pc = "hello", !.role = role])
    BY <1>2 DEF Start
  <2>2. [NoConn EXCEPT !.pc = "hello", !.role = role].pc = "hello"
    BY DEF NoConn
  <2> QED BY <1>1, <2>1, <2>2, UsesKeep, Forgetting DEF Mild
<1>3. CASE \E p \in {"new", "offered", "hello", "flush", "idle"} : Goto(t, p)
  <2>1. PICK p \in {"new", "offered", "hello", "flush", "idle"} : Goto(t, p)
    BY <1>3
  <2>2. p \in PC /\ p # "found" /\ \E c : Set(t, c)
    BY <2>1 DEF PC, Goto
  <2> QED BY <1>1, <2>1, <2>2, UsesKeep, ForgetGoto DEF Mild
<1> QED BY <1>2, <1>3 DEF NoOffer, ClientHello, Renegotiate, Flush, FlushDone

LEMMA MildFields ==
  ASSUME NEW d \in Conns, NEW a, NEW b, NEW h, NEW p \in PC
  PROVE  /\ [d EXCEPT !.sess = a].pc = d.pc
         /\ [d EXCEPT !.want = a, !.pc = p].pc = p
         /\ [d EXCEPT !.ret = a, !.pc = p].pc = p
         /\ [d EXCEPT !.sess = a, !.ret = b, !.hit = h, !.pc = p].pc = p
         /\ [d EXCEPT !.sess = a, !.hit = h, !.pc = p].pc = p
         /\ [d EXCEPT !.sess = a, !.pc = p].pc = p
         /\ [d EXCEPT !.hit = h, !.pc = p].pc = p
         /\ [d EXCEPT !.switched = h].pc = d.pc
         /\ [d EXCEPT !.pc = p, !.ret = a, !.back = b].pc = p
         /\ [d EXCEPT !.pc = p, !.back = b].pc = p
         /\ [d EXCEPT !.pc = p, !.ret = a].pc = p
BY DEF Conns

LEMMA MildUses ==
  ASSUME Inv, NEW t \in Thread,
         SetSession(t) \/ AskApplication(t) \/ UseFound(t) \/ OtherContext(t) \/ NoSession(t)
         \/ UpdateCache(t) \/ StoreGiven(t) \/ Release(t) \/ Close(t) \/ Switch(t)
  PROVE  Mild
<1> DEFINE d == conn[t]
<1>1. /\ d \in Conns /\ ConnOK(d, lock = t) /\ d.sess \in SessionOrNull /\ d.ret \in SessionOrNull
      /\ pocket \in SessionOrNull
  BY UsingNow, PocketFacts DEF Conns
<1>2. \A p \in {"hello", "new", "store", "expired", "handshake", "close", "up", "add"} : p \in PC /\ p # "found"
  BY DEF PC
<1>3. CASE SetSession(t)
  <2>1. d.pc = "hello" /\ Set(t, [d EXCEPT !.sess = pocket]) /\ mem' = Free(UpRef(mem, pocket), d.sess)
        /\ pocket \in Session
    BY <1>1, <1>3 DEF SetSession, k, At, SessionOrNull
  <2>2. [d EXCEPT !.sess = pocket].pc = "hello"
    BY <1>1, <2>1, MildFields
  <2> QED BY <1>1, <2>1, <2>2, UsesKeep, Forgetting DEF Mild
<1>4. CASE AskApplication(t)
  <2>1. CASE Goto(t, "new") /\ UNCHANGED mem
    <3>1. \E c : Set(t, c)
      BY <2>1 DEF Goto
    <3> QED BY <1>2, <2>1, <3>1, UsesKeep, ForgetGoto DEF Mild
  <2>2. CASE \E s \in ext : mem' = UpRef(mem, s) /\ Set(t, [d EXCEPT !.ret = s, !.pc = "store"])
    <3>1. PICK s \in ext : mem' = UpRef(mem, s) /\ Set(t, [d EXCEPT !.ret = s, !.pc = "store"])
      BY <2>2
    <3>2. s \in Session /\ [d EXCEPT !.ret = s, !.pc = "store"].pc # "found"
      BY <1>1, <1>2, <3>1, MildFields DEF Inv, Types
    <3> QED BY <3>1, <3>2, UsesKeep, Forgetting DEF Mild
  <2> QED BY <1>4, <2>1, <2>2 DEF AskApplication, k
<1>5. CASE UseFound(t)
  <2>1. CASE Goto(t, "expired") /\ UNCHANGED mem
    <3>1. \E c : Set(t, c)
      BY <2>1 DEF Goto
    <3> QED BY <1>2, <2>1, <3>1, UsesKeep, ForgetGoto DEF Mild
  <2>2. CASE mem' = Free(mem, d.sess)
             /\ Set(t, [d EXCEPT !.sess = d.ret, !.ret = Null, !.hit = TRUE, !.pc = "handshake"])
    <3>1. [d EXCEPT !.sess = d.ret, !.ret = Null, !.hit = TRUE, !.pc = "handshake"].pc # "found"
      BY <1>1, <1>2, MildFields
    <3> QED BY <1>1, <2>2, <3>1, UsesKeep, Forgetting DEF Mild
  <2> QED BY <1>5, <2>1, <2>2 DEF UseFound, k
<1>6. CASE OtherContext(t) \/ Release(t)
  <2>1. mem' = Free(mem, d.ret) /\ Set(t, [d EXCEPT !.ret = Null, !.pc = "new"])
    BY <1>6 DEF OtherContext, Release, k
  <2>2. [d EXCEPT !.ret = Null, !.pc = "new"].pc # "found"
    BY <1>1, <1>2, MildFields
  <2> QED BY <1>1, <2>1, <2>2, UsesKeep, Forgetting DEF Mild
<1>7. CASE NoSession(t)
  <2>1. CASE Goto(t, "close") /\ UNCHANGED mem
    <3>1. \E c : Set(t, c)
      BY <2>1 DEF Goto
    <3> QED BY <1>2, <2>1, <3>1, UsesKeep, ForgetGoto DEF Mild
  <2>2. CASE mem' = Free(mem, d.sess) /\ Set(t, [d EXCEPT !.sess = Null, !.pc = "close"])
    <3>1. [d EXCEPT !.sess = Null, !.pc = "close"].pc # "found"
      BY <1>1, <1>2, MildFields
    <3> QED BY <1>1, <2>2, <3>1, UsesKeep, Forgetting DEF Mild
  <2> QED BY <1>7, <2>1, <2>2 DEF NoSession, k
<1>8. CASE UpdateCache(t)
  <2>1. d.sess \in Session
    BY <1>1, <1>8 DEF UpdateCache, At, ConnOK, HasSess
  <2>2. CASE Goto(t, "up") /\ UNCHANGED mem
    <3>1. \E c : Set(t, c)
      BY <2>2 DEF Goto
    <3> QED BY <1>2, <2>2, <3>1, UsesKeep, ForgetGoto DEF Mild
  <2>3. CASE mem' = UpRef(mem, d.sess) /\ Set(t, [d EXCEPT !.pc = "add", !.ret = d.sess, !.back = "notify"])
    <3>1. [d EXCEPT !.pc = "add", !.ret = d.sess, !.back = "notify"].pc # "found"
      BY <1>1, <1>2, MildFields
    <3> QED BY <2>1, <2>3, <3>1, UsesKeep, Forgetting DEF Mild
  <2> QED BY <1>8, <2>2, <2>3 DEF UpdateCache, k
<1>9. CASE StoreGiven(t)
  <2>1. d.ret \in Session
    BY <1>1, <1>9 DEF StoreGiven, At, ConnOK, HasRet
  <2>2. mem' = UpRef(mem, d.ret) /\ Set(t, [d EXCEPT !.pc = "add", !.back = "given"])
    BY <1>9 DEF StoreGiven, k
  <2>3. [d EXCEPT !.pc = "add", !.back = "given"].pc # "found"
    BY <1>1, <1>2, MildFields
  <2> QED BY <2>1, <2>2, <2>3, UsesKeep, Forgetting DEF Mild
<1>10. CASE Close(t)
  <2>1. mem' = Free(mem, d.sess) /\ Set(t, NoConn) /\ NoConn.pc # "found"
    BY <1>10 DEF Close, NoConn, k
  <2> QED BY <1>1, <2>1, UsesKeep, Forgetting DEF Mild
<1>11. CASE Switch(t)
  <2>1. UNCHANGED mem /\ Set(t, [d EXCEPT !.switched = TRUE]) /\ d.pc = "handshake"
    BY <1>11 DEF Switch, k, At
  <2>2. [d EXCEPT !.switched = TRUE].pc = d.pc
    BY <1>1, <1>2, MildFields
  <2>3. [d EXCEPT !.switched = TRUE].pc # "found"
    BY <2>1, <2>2
  <2> QED BY <2>1, <2>3, UsesKeep, Forgetting DEF Mild
<1> QED BY <1>3, <1>4, <1>5, <1>6, <1>7, <1>8, <1>9, <1>10, <1>11

LEMMA MildReplace ==
  ASSUME Inv, NEW t \in Thread, NEW i \in Id, NEW M \in New(mem, i), NEW s \in NewAddress(M),
         mem' = Free(M, conn[t].sess),
         Set(t, [conn[t] EXCEPT !.sess = s, !.hit = FALSE, !.pc = "handshake"])
  PROVE  Mild
<1>1. Sound(mem, HoldersIn(cache.table, ext, Places)) /\ now \in Nat /\ conn[t] \in Conns
      /\ conn[t].sess \in SessionOrNull
  BY UsingNow DEF Inv, CountInv, Counted, Conns
<1>2. Kept(mem, M) /\ M \in [Session -> Sessions]
  <2> DEFINE H == HoldersIn(cache.table, ext, Places)
  <2>1. Sound(mem, H)
    BY <1>1
  <2> HIDE DEF H
  <2> QED BY <1>1, <2>1, NewKept, NewDead
<1>3. Old(M, mem')
  BY <1>1, <1>2, FreeFacts
<1>4. [conn[t] EXCEPT !.sess = s, !.hit = FALSE, !.pc = "handshake"].pc = "handshake"
  BY <1>1, MildFields DEF PC
<1>5. [conn[t] EXCEPT !.sess = s, !.hit = FALSE, !.pc = "handshake"].pc # "found"
  BY <1>4
<1> QED BY <1>2, <1>3, <1>5, KeptOld, Forgetting DEF Mild

LEMMA MildNew ==
  ASSUME Inv, NoRenewal, NEW t \in Thread,
         NewSession(t) \/ ServerHelloMiss(t) \/ ServerHelloHit(t) \/ Notify(t) \/ Revoke(t)
  PROVE  Mild
<1>1. CASE NewSession(t)
  <2>1. PICK i \in Id : \E M \in New(mem, i) : \E s \in NewAddress(M) :
            /\ mem' = Free(M, conn[t].sess)
            /\ Set(t, [conn[t] EXCEPT !.sess = s, !.hit = FALSE, !.pc = "handshake"])
    BY <1>1 DEF NewSession, k
  <2> QED BY <2>1, MildReplace
<1>2. CASE ServerHelloMiss(t)
  <2>1. PICK i \in Id : \E M \in New(mem, i) : \E s \in NewAddress(M) :
            /\ mem' = Free(M, conn[t].sess)
            /\ Set(t, [conn[t] EXCEPT !.sess = s, !.hit = FALSE, !.pc = "handshake"])
    BY <1>2 DEF ServerHelloMiss, FreshId, k
  <2> QED BY <2>1, MildReplace
<1>3. conn[t] \in Conns /\ ConnOK(conn[t], lock = t) /\ mem \in [Session -> Sessions]
  BY UsingNow
<1>4. CASE ServerHelloHit(t)
  <2>1. UNCHANGED mem /\ Set(t, [conn[t] EXCEPT !.hit = TRUE, !.pc = "handshake"])
    BY <1>4 DEF ServerHelloHit, k, NoRenewal
  <2>2. [conn[t] EXCEPT !.hit = TRUE, !.pc = "handshake"].pc = "handshake"
    BY <1>3, MildFields DEF PC
  <2>3. [conn[t] EXCEPT !.hit = TRUE, !.pc = "handshake"].pc # "found"
    BY <2>2
  <2> QED BY <2>1, <2>3, UsesKeep, Forgetting DEF Mild
<1>5. CASE Notify(t)
  <2>1. conn[t].sess \in Session
    BY <1>3, <1>5 DEF Notify, At, ConnOK, HasSess
  <2>2. Goto(t, "up") /\ (UNCHANGED mem \/ mem' = UpRef(mem, conn[t].sess))
    BY <1>5 DEF Notify, k
  <2>3. "up" \in PC /\ \E c : Set(t, c)
    BY <2>2 DEF PC, Goto
  <2> QED BY <2>1, <2>2, <2>3, UsesKeep, ForgetGoto DEF Mild
<1>6. CASE Revoke(t)
  <2> DEFINE s == conn[t].ret
             c == [conn[t] EXCEPT !.pc = conn[t].back, !.ret = IF conn[t].back = "release" THEN s ELSE Null]
  <2>1. conn[t].pc = "unlinked" /\ mem' = Revoked(mem, s) /\ Set(t, c)
    BY <1>6 DEF Revoke, At, k
  <2>2. s \in Session /\ conn[t].back \in {"release", "failed"}
    BY <1>3, <2>1 DEF ConnOK, HasRet
  <2>3. c.pc = conn[t].back
    BY <1>3, <2>2, MildFields DEF PC
  <2>4. mem[s].refs # 0
    <3>1. Sound(mem, HoldersIn(cache.table, ext, Places))
      BY DEF Inv, CountInv, Counted
    <3>2. /\ Using(mem, cache.table, ext, Places, t, Use(conn[t], "sess"), Use(conn[t], "ret"), Use(conn[t], "more"))
          /\ Places \in [Place -> SessionOrNull]
      BY UsingNow
    <3>3. Use(conn[t], "ret") = s
      BY <2>1, UseFacts
    <3>4. mem[s].live
      <4>1. Use(conn[t], "ret") \in Session
        BY <2>2, <3>3
      <4>2. mem[Use(conn[t], "ret")].live
        BY <3>2, <4>1, UsingFacts
      <4> QED BY <3>3, <4>2
    <3> QED BY <2>2, <3>1, <3>4 DEF Sound
  <2> HIDE DEF s, c
  <2>5. Kept(mem, mem')
    BY <1>3, <2>1, <2>2, <2>4, RevokedKeep, OldIsKept
  <2>6. c.pc # "found"
    BY <2>2, <2>3
  <2> QED BY <2>1, <2>5, <2>6, Forgetting DEF Mild
<1> QED BY <1>1, <1>2, <1>4, <1>5, <1>6

LEMMA CutIsRemoveAt ==
  ASSUME NEW q \in Seq(Session), NEW n \in 1..Len(q)
  PROVE  Cut(q, n) = SubSeq(q, 1, n - 1) \o SubSeq(q, n + 1, Len(q))
<1> DEFINE a == SubSeq(q, 1, n - 1)
           b == SubSeq(q, n + 1, Len(q))
           r == a \o b
<1>1. Len(q) \in Nat /\ n \in Nat /\ n # 0 /\ n <= Len(q)
  BY LenProperties
<1>2. /\ a \in Seq(Session) /\ Len(a) = n - 1
      /\ \A i \in 1..(n - 1) : a[i] = q[i]
  BY <1>1
<1>3. /\ b \in Seq(Session) /\ Len(b) = Len(q) - n
      /\ \A i \in 1..(Len(q) - n) : b[i] = q[n + i]
  BY <1>1
<1>4. /\ Cut(q, n) \in Seq(Session) /\ Len(Cut(q, n)) = Len(q) - 1
      /\ \A i \in 1..(Len(q) - 1) : Cut(q, n)[i] = IF i < n THEN q[i] ELSE q[i + 1]
  BY CutFacts
<1> HIDE DEF a, b
<1>5. r \in Seq(Session) /\ Len(r) = Len(q) - 1
  <2>1. r \in Seq(Session) /\ Len(r) = Len(a) + Len(b)
    BY <1>2, <1>3, ConcatProperties
  <2> HIDE DEF r
  <2> QED BY <1>1, <1>2, <1>3, <2>1
<1>6. ASSUME NEW i \in 1..(Len(q) - 1) PROVE r[i] = IF i < n THEN q[i] ELSE q[i + 1]
  <2>1. r[i] = IF i <= Len(a) THEN a[i] ELSE b[i - Len(a)]
    <3>1. \A j \in 1..(Len(a) + Len(b)) : r[j] = IF j <= Len(a) THEN a[j] ELSE b[j - Len(a)]
      BY <1>2, <1>3, ConcatProperties
    <3>2. i \in 1..(Len(a) + Len(b))
      BY <1>1, <1>2, <1>3
    <3> HIDE DEF r
    <3> QED BY <3>1, <3>2
  <2>2. CASE i < n
    BY <1>1, <1>2, <2>1, <2>2
  <2>3. CASE ~(i < n)
    <3>1. i - (n - 1) \in 1..(Len(q) - n) /\ n + (i - (n - 1)) = i + 1
      BY <1>1, <2>3
    <3> QED BY <1>1, <1>2, <1>3, <2>1, <2>3, <3>1
  <2> QED BY <2>2, <2>3
<1>7. \A i \in 1..Len(r) : Cut(q, n)[i] = r[i]
  BY <1>4, <1>5, <1>6
<1> HIDE DEF r
<1>8. Cut(q, n) = r
  BY <1>4, <1>5, <1>7, SeqEqual
<1> QED BY <1>8 DEF r, a, b

LEMMA PushIsConcat ==
  ASSUME NEW q \in Seq(Session), NEW s \in Session
  PROVE  Push(s, q) = <<s>> \o q
<1> DEFINE r == <<s>> \o q
           a == <<s>>
<1>1. Len(q) \in Nat /\ a \in Seq(Session) /\ Len(a) = 1 /\ a[1] = s
  BY LenProperties
<1>2. Push(s, q) \in Seq(Session) /\ Len(Push(s, q)) = Len(q) + 1
      /\ \A i \in 1..(Len(q) + 1) : Push(s, q)[i] = IF i = 1 THEN s ELSE q[i - 1]
  BY PushFacts
<1>3. r = a \o q
  OBVIOUS
<1> HIDE DEF r, a
<1>4. r \in Seq(Session) /\ Len(r) = Len(q) + 1
      /\ \A i \in 1..(Len(q) + 1) : r[i] = IF i <= Len(a) THEN a[i] ELSE q[i - Len(a)]
  <2>1. /\ a \o q \in Seq(Session) /\ Len(a \o q) = Len(a) + Len(q)
        /\ \A i \in 1..(Len(a) + Len(q)) : (a \o q)[i] = IF i <= Len(a) THEN a[i] ELSE q[i - Len(a)]
    BY <1>1, ConcatProperties
  <2>2. Len(a) + Len(q) = Len(q) + 1
    BY <1>1
  <2> QED BY <1>3, <2>1, <2>2
<1>5. \A i \in 1..Len(r) : Push(s, q)[i] = r[i]
  BY <1>1, <1>2, <1>4
<1>6. Push(s, q) = r
  BY <1>2, <1>4, <1>5, SeqEqual
<1> QED BY <1>6 DEF r

LEMMA StoreKeepsIds ==
  ASSUME NEW r \in Seq(Session), List' = r, \A x \in Elements(r) : mem'[x].id = mem[x].id
  PROVE  Store!KeepsIds
<1>1. \A x \in Elements(r) : x \in Session
  BY ElementOfSeq DEF Elements
<1>2. Store!ToSet(List') = Elements(r)
  BY DEF Store!ToSet, Elements
<1> QED BY <1>1, <1>2 DEF Store!KeepsIds

LEMMA StoreForgets == ASSUME Forgotten(conn, conn') PROVE Store!Forgets
BY DEF Forgotten, Replies, Store!Forgets

(* What may become of the list: nothing, a session goes, the last one goes  *)
(* since there are too many, or one comes, perhaps for another.             *)
Shed(q, r) == Len(q) <= CacheSize /\ \E n \in 1..Len(q) : r = Cut(q, n)
Spilt(q, r) == Len(q) > CacheSize /\ r = Cut(q, Len(q))
Taken(q, r, s) ==
  /\ Len(q) <= CacheSize /\ s \in Session /\ s \notin Elements(q)
  /\ \/ (\A x \in Elements(q) : mem[x].id # mem[s].id) /\ r = Push(s, q)
     \/ \E n \in 1..Len(q) : mem[q[n]].id = mem[s].id /\ r = Push(s, Cut(q, n))

LEMMA StoreStep ==
  ASSUME NEW q \in Seq(Session), NEW r \in Seq(Session), List = q, List' = r,
         Forgotten(conn, conn'), \A x \in Elements(r) : mem'[x].id = mem[x].id,
         r = q \/ Shed(q, r) \/ Spilt(q, r) \/ \E s : Taken(q, r, s)
  PROVE  Store!Next
<1>1. Store!Forgets /\ Store!KeepsIds
  BY StoreForgets, StoreKeepsIds
<1>2. Store!Stored = Elements(q)
  BY DEF Store!Stored, Store!ToSet, Elements
<1>3. Len(q) \in Nat /\ Elements(q) \subseteq Session
  BY LenProperties, ElementOfSeq DEF Elements
<1>4. \A n \in 1..Len(q) : Store!RemoveAt(List, n) = Cut(q, n)
  BY CutIsRemoveAt DEF Store!RemoveAt
<1>5. CASE r = q
  BY <1>1, <1>5 DEF Store!Next
<1>6. CASE Shed(q, r)
  <2>1. Store!Discard
    BY <1>4, <1>6 DEF Store!Discard, Shed
  <2> QED BY <1>1, <2>1 DEF Store!Next
<1>7. CASE Spilt(q, r)
  <2>1. Len(q) \in 1..Len(q)
    BY <1>3, <1>7, SizesAssumption DEF Spilt, SizesAssumption
  <2>2. Store!Evict
    BY <1>4, <1>7, <2>1 DEF Store!Evict, Spilt
  <2> QED BY <1>1, <2>2 DEF Store!Next
<1>8. ASSUME NEW s, Taken(q, r, s) PROVE Store!Next
  <2>1. s \in Session /\ s \notin Store!Stored /\ Len(List) <= CacheSize
    BY <1>2, <1>8 DEF Taken
  <2>2. CASE (\A x \in Elements(q) : mem[x].id # mem[s].id) /\ r = Push(s, q)
    <3>1. List' = <<s>> \o List
      BY <2>1, <2>2, PushIsConcat
    <3>2. Store!Insert(s)
      BY <1>2, <1>3, <2>1, <2>2, <3>1 DEF Store!Insert
    <3> QED BY <1>1, <2>1, <3>2 DEF Store!Next
  <2>3. CASE \E n \in 1..Len(q) : mem[q[n]].id = mem[s].id /\ r = Push(s, Cut(q, n))
    <3>1. PICK n \in 1..Len(q) : mem[q[n]].id = mem[s].id /\ r = Push(s, Cut(q, n))
      BY <2>3
    <3>2. Cut(q, n) \in Seq(Session) /\ q[n] \in Session
      BY CutFacts, ElementOfSeq
    <3>3. List' = <<s>> \o Store!RemoveAt(List, n)
      BY <1>4, <2>1, <3>1, <3>2, PushIsConcat
    <3>4. Store!Insert(s)
      BY <2>1, <3>1, <3>2, <3>3 DEF Store!Insert
    <3> QED BY <1>1, <2>1, <3>4 DEF Store!Next
  <2> QED BY <1>8, <2>2, <2>3 DEF Taken
<1> QED BY <1>5, <1>6, <1>7, <1>8

(* The list of memory M and cache C, all of whose sessions are live.        *)
Listing(q, M, C) ==
  /\ q \in Seq(Session) /\ IsList(q, M, C) /\ Elements(q) = Cached(C)
  /\ \A x \in Elements(q) : x \in Session /\ M[x].live

LEMMA HasListing ==
  ASSUME NoRenewal, NEW M, NEW C \in Caches, NEW E, NEW P, Counted(M, C.table, E, P), Linked(M, C)
  PROVE  \E q : Listing(q, M, C)
<1>1. PICK q : IsList(q, M, C) /\ Elements(q) = Cached(C)
  BY DEF Linked
<1>2. q \in Seq(Session)
  BY <1>1 DEF IsList
<1>3. ASSUME NEW x \in Cached(C) PROVE x \in Session /\ M[x].live
  <2>1. PICK e \in C.table : e[2] = x
    BY <1>3 DEF Cached
  <2>2. e[1] \in Id /\ x \in Session /\ <<e[1], x>> \in C.table
    BY <2>1 DEF Caches
  <2> QED BY <2>2, LiveIsHeld
<1> QED BY <1>1, <1>2, <1>3 DEF Listing

LEMMA ListingNow == ASSUME Inv, NoRenewal PROVE \E q : Listing(q, mem, cache)
BY CacheNow, HasListing

(* A list with the same ends and sessions, from whose memory the rest was   *)
(* done without touching the links, is the list after the step.             *)
LEMMA NextList ==
  ASSUME NoRenewal, Inv', NEW r, NEW N, NEW D, IsList(r, N, D), r \in Seq(Session),
         D.head = cache'.head, D.tail = cache'.tail, Elements(r) = Cached(cache'),
         Kept(N, mem'), \A x \in Elements(r) : N[x].live
  PROVE  List' = r /\ \A x \in Elements(r) : mem'[x].id = N[x].id
<1>1. cache' \in Caches /\ Counted(mem', cache'.table, ext', Places') /\ Linked(mem', cache')
  BY DEF Inv, Types, CountInv, LinkedInv
<1>2. PICK q : Listing(q, mem', cache')
  BY <1>1, HasListing
<1>3. \A x \in Elements(r) : x \in Session /\ mem'[x].live
  BY <1>2 DEF Listing
<1>4. \A x \in Elements(r) : mem'[x].id = N[x].id /\ mem'[x].prev = N[x].prev /\ mem'[x].next = N[x].next
  BY <1>3 DEF Kept
<1>5. \A i \in 1..Len(r) : r[i] \in Elements(r)
  BY DEF Elements
<1>6. \A s \in Session : (\A i \in 1..Len(r) : r[i] # s) => mem'[s].prev = Null /\ mem'[s].next = Null
  <2>1. ASSUME NEW s \in Session, \A i \in 1..Len(r) : r[i] # s PROVE s \notin Elements(q)
    BY <1>2, <2>1 DEF Listing, Elements
  <2> QED BY <1>2, <2>1, Unlinked DEF Listing
<1>7. IsList(r, mem', cache')
  <2>1. \A i \in 1..Len(r) : /\ mem'[r[i]].prev = IF i = 1 THEN HeadPtr ELSE r[i - 1]
                             /\ mem'[r[i]].next = IF i = Len(r) THEN TailPtr ELSE r[i + 1]
    BY <1>4, <1>5 DEF IsList
  <2> QED BY <1>6, <2>1 DEF IsList
<1>8. List' = ListOf(mem', cache')
  BY DEF List
<1> QED BY <1>4, <1>7, <1>8, ListIsWalked

LEMMA MildStore ==
  ASSUME Inv, Inv', NoRenewal, UNCHANGED cache, Mild
  PROVE  Store!Next
<1>1. PICK q : Listing(q, mem, cache)
  BY ListingNow
<1>2. q \in Seq(Session) /\ IsList(q, mem, cache) /\ Elements(q) = Cached(cache') /\ \A x \in Elements(q) : mem[x].live
  BY <1>1 DEF Listing
<1>3. List = q
  BY <1>2, ListIsWalked DEF List
<1>4. List' = q /\ \A x \in Elements(q) : mem'[x].id = mem[x].id
  BY <1>2, NextList DEF Mild
<1> QED BY <1>2, <1>3, <1>4, StoreStep DEF Mild

(* A session is unlinked, and what follows does not touch the links.        *)
LEMMA CutStore ==
  ASSUME Inv, Inv', NoRenewal, Forgotten(conn, conn'),
         NEW s \in Session, <<mem[s].id, s>> \in cache.table, mem[s].id \in Id,
         cache' = LessCache(mem, cache, mem[s].id, s),
         cache'.table = cache.table \ {<<mem[s].id, s>>},
         Kept(LessMem(mem, cache, s), mem'),
         Cardinality(cache.table) > CacheSize => s = cache.tail
  PROVE  Store!Next
<1>1. PICK q : Listing(q, mem, cache)
  BY ListingNow
<1>2. /\ q \in Seq(Session) /\ IsList(q, mem, cache) /\ Elements(q) = Cached(cache)
      /\ \A x \in Elements(q) : x \in Session /\ mem[x].live
  BY <1>1 DEF Listing
<1>3. s \in Elements(q)
  BY <1>2 DEF Cached
<1>4. List = q
  BY <1>2, ListIsWalked DEF List
<1>5. mem \in [Session -> Sessions] /\ cache \in Caches /\ Len(q) \in Nat
  BY <1>2, PocketFacts, CacheNow, LenProperties
<1>6. Cardinality(cache.table) = Len(q)
  BY <1>2, TableCount
<1>7. \E n \in 1..Len(q) : s = q[n] /\ (Len(q) > CacheSize => n = Len(q))
  <2>1. PICK n \in 1..Len(q) : s = q[n]
    BY <1>3 DEF Elements
  <2>2. CASE Len(q) > CacheSize
    <3>1. s = q[Len(q)]
      BY <1>2, <1>5, <1>6, <2>1, <2>2, ListElements
    <3> QED BY <1>5, <2>1, <3>1
  <2> QED BY <2>1, <2>2
<1>8. PICK n \in 1..Len(q) : s = q[n] /\ (Len(q) > CacheSize => n = Len(q))
  BY <1>7
<1> DEFINE r == Cut(q, n)
           R == ListRemove(mem, cache, s)
<1>9. /\ IsList(r, R.mem, R.cache) /\ Relinked(mem, R.mem)
      /\ R.cache \in Caches /\ R.cache.table = cache.table /\ Elements(r) = Elements(q) \ {s}
  BY <1>2, <1>5, <1>8, RemoveLinked
<1>10. LessMem(mem, cache, s) = R.mem /\ cache' = [R.cache EXCEPT !.table = cache.table \ {<<mem[s].id, s>>}]
  BY DEF LessMem, LessCache
<1> HIDE DEF R
<1>11. R.cache.head = cache'.head /\ R.cache.tail = cache'.tail
  BY <1>9, <1>10 DEF Caches
<1>12. Elements(r) = Cached(cache')
  <2>1. \A e \in cache.table : e = <<mem[e[2]].id, e[2]>>
    BY CacheNow DEF Filed
  <2>2. \A x : x \in Cached(cache') <=> x \in Cached(cache) /\ x # s
    BY <2>1 DEF Cached
  <2> QED BY <1>2, <1>9, <2>2
<1>13. r \in Seq(Session)
  BY <1>2, CutFacts
<1>14. \A x \in Elements(r) : x \in Session /\ R.mem[x].live /\ R.mem[x].id = mem[x].id
  BY <1>2, <1>9 DEF Relinked
<1> HIDE DEF r
<1>15. List' = r /\ \A x \in Elements(r) : mem'[x].id = R.mem[x].id
  <2>1. Kept(R.mem, mem') /\ \A x \in Elements(r) : R.mem[x].live
    BY <1>10, <1>14
  <2> QED BY <1>9, <1>11, <1>12, <1>13, <2>1, NextList
<1>16. \A x \in Elements(r) : mem'[x].id = mem[x].id
  BY <1>14, <1>15
<1>17. Shed(q, r) \/ Spilt(q, r)
  BY <1>5, <1>8, SizesAssumption DEF r, Shed, Spilt, SizesAssumption
<1> QED BY <1>2, <1>4, <1>13, <1>15, <1>16, <1>17, StoreStep

LEMMA LookupStore ==
  ASSUME Inv, Inv', NoRenewal, NEW t \in Thread, NEW i \in Id, Lookup(t, i)
  PROVE  Store!Next
<1>1. conn[t] \in Conns /\ conn[t].pc = "hello" /\ mem \in [Session -> Sessions] /\ UNCHANGED cache
      /\ conn \in [Thread -> Conns]
  BY UsingNow DEF Lookup, At, Inv, Types
<1>2. CASE UNCHANGED mem /\ Set(t, [conn[t] EXCEPT !.want = i, !.pc = IF "external" \in Features THEN "ask" ELSE "new"])
  <2>1. (IF "external" \in Features THEN "ask" ELSE "new") \in PC \ {"found"}
    BY DEF PC
  <2>2. [conn[t] EXCEPT !.want = i, !.pc = IF "external" \in Features THEN "ask" ELSE "new"].pc # "found"
    BY <1>1, <2>1, MildFields
  <2> QED BY <1>1, <1>2, <2>2, UsesKeep, Forgetting, MildStore DEF Mild
<1>3. CASE \E e \in Find(mem, cache, i) : /\ mem' = UpRef(mem, e[2])
                                         /\ Set(t, [conn[t] EXCEPT !.want = i, !.ret = e[2], !.pc = "found"])
  <2>1. PICK e \in Find(mem, cache, i) :
              mem' = UpRef(mem, e[2]) /\ Set(t, [conn[t] EXCEPT !.want = i, !.ret = e[2], !.pc = "found"])
    BY <1>3
  <2> DEFINE s == e[2]
             c == [conn[t] EXCEPT !.want = i, !.ret = s, !.pc = "found"]
  <2>2. e \in cache.table /\ s \in Session /\ s \in Cached(cache) /\ mem[s].id = i
    BY <2>1, CacheNow DEF Find, Cached
  <2>3. c.pc = "found" /\ c.want = i /\ c.ret = s
    BY <1>1 DEF Conns
  <2>4. Set(t, c) /\ mem' = UpRef(mem, s)
    BY <2>1
  <2> HIDE DEF s, c
  <2>5. conn' = [conn EXCEPT ![t] = c]
    BY <2>4 DEF Set
  <2>6. conn'[t] = c /\ \A u \in Thread : u # t => conn'[u] = conn[u]
    BY <1>1, <2>5
  <2>7. Replies(conn)[t] = Null /\ Replies(conn') = [Replies(conn) EXCEPT ![t] = <<mem[s].id, s>>]
    <3>1. Replies(conn)[t] = Null
      BY <1>1 DEF Replies
    <3>2. Replies(conn')[t] = <<mem[s].id, s>>
      BY <2>2, <2>3, <2>6 DEF Replies
    <3>3. \A u \in Thread : u # t => Replies(conn')[u] = Replies(conn)[u]
      BY <2>6 DEF Replies
    <3>4. \A u \in Thread : Replies(conn')[u] = [Replies(conn) EXCEPT ![t] = <<mem[s].id, s>>][u]
      BY <3>2, <3>3 DEF Replies
    <3> QED BY <3>1, <3>4 DEF Replies
  <2>8. Ids(mem') = Ids(mem)
    <3>1. mem' = [mem EXCEPT ![s] = [mem[s] EXCEPT !.refs = mem[s].refs + 1]]
      BY <2>4 DEF UpRef
    <3>2. mem[s] \in Sessions
      BY <1>1, <2>2
    <3>3. [mem[s] EXCEPT !.refs = mem[s].refs + 1].id = mem[s].id
      BY <3>2 DEF Sessions
    <3>4. \A x \in Session : mem'[x].id = mem[x].id
      BY <1>1, <3>1, <3>3
    <3> QED BY <3>4 DEF Ids
  <2>9. PICK q : Listing(q, mem, cache)
    BY ListingNow
  <2>10. /\ q \in Seq(Session) /\ IsList(q, mem, cache) /\ Elements(q) = Cached(cache')
         /\ \A x \in Elements(q) : mem[x].live
    BY <1>1, <2>9 DEF Listing
  <2>11. List = q
    BY <2>10, ListIsWalked DEF List
  <2>12. Kept(mem, mem')
    BY <2>2, <2>4, UsesKeep
  <2>13. List' = q
    BY <1>1, <2>10, <2>12, NextList
  <2>14. s \in Store!Stored
    BY <1>1, <2>2, <2>10, <2>11 DEF Store!Stored, Store!ToSet, Elements
  <2>15. Store!Lookup(t)
    <3>1. Ids(mem)[s] = mem[s].id
      BY <2>2 DEF Ids
    <3>2. Replies(conn') = [Replies(conn) EXCEPT ![t] = <<Ids(mem)[s], s>>]
      BY <2>7, <3>1
    <3> QED BY <2>7, <2>8, <2>11, <2>13, <2>14, <3>2 DEF Store!Lookup, Ids, Replies
  <2> QED BY <2>15 DEF Store!Next
<1> QED BY <1>2, <1>3 DEF Lookup, k

LEMMA CalmBound ==
  ASSUME Inv, NoRenewal, BoundInv, \A t \in Thread : conn[t].pc # "evict"
  PROVE  ~(Cardinality(cache.table) > CacheSize)
<1>1. Cardinality(cache.table) \in Nat
  BY TableIsFinite
<1>2. Cardinality(cache.table) <= CacheSize
  BY DEF BoundInv
<1> QED BY <1>1, <1>2, SizesAssumption DEF SizesAssumption

LEMMA LockedOut ==
  ASSUME Inv, NEW t \in Thread, lock = Null \/ conn[t].pc = "flush"
  PROVE  \A u \in Thread : conn[u].pc # "evict"
<1>1. \A u \in Thread : lock = u <=> conn[u].pc \in {"evict", "flush"}
  BY DEF Inv, ConnInv, ConnOK
<1>2. \A u \in Thread : u # Null
  BY Pointers
<1>3. ASSUME NEW u \in Thread, conn[u].pc = "evict" PROVE FALSE
  <2>1. lock = u
    BY <1>1, <1>3
  <2>2. lock = t
    BY <1>1, <1>2, <2>1
  <2> QED BY <1>2, <1>3, <2>1, <2>2
<1> QED BY <1>3

LEMMA FailStore ==
  ASSUME Inv, Inv', BoundInv, NoRenewal, NEW t \in Thread, Fail(t) \/ RemoveExpired(t)
  PROVE  Store!Next
<1>1. PICK s \in Session : \E c :
        LET u == Unlink(mem, cache, s) IN
        /\ lock = Null /\ Set(t, c) /\ c.pc # "found"
        /\ \/ u.found /\ mem' = u.mem /\ cache' = u.cache
           \/ UNCHANGED <<mem, cache>>
  <2>1. /\ conn[t] \in Conns /\ ConnOK(conn[t], lock = t)
    BY UsingNow
  <2>2. CASE Fail(t)
    <3>1. conn[t].sess \in Session
      BY <2>1, <2>2 DEF Fail, At, ConnOK, HasSess
    <3>2. CASE Goto(t, "failed") /\ UNCHANGED <<mem, cache>>
      <4>1. Set(t, [conn[t] EXCEPT !.pc = "failed"]) /\ [conn[t] EXCEPT !.pc = "failed"].pc # "found"
        BY <2>1, <3>2 DEF Goto, k, Conns
      <4> QED BY <2>2, <3>1, <3>2, <4>1 DEF Fail
    <3>3. CASE LET u == Unlink(mem, cache, conn[t].sess) IN
               /\ u.found /\ mem' = u.mem /\ cache' = u.cache
               /\ Set(t, [conn[t] EXCEPT !.pc = "unlinked", !.ret = conn[t].sess, !.back = "failed"])
      <4> DEFINE c == [conn[t] EXCEPT !.pc = "unlinked", !.ret = conn[t].sess, !.back = "failed"]
      <4>1. "unlinked" \in PC
        BY DEF PC
      <4>2. c.pc = "unlinked"
        BY <2>1, <4>1, MildFields
      <4>3. Set(t, c) /\ c.pc # "found"
        BY <3>3, <4>2
      <4> HIDE DEF c
      <4> QED BY <2>2, <3>1, <3>3, <4>3 DEF Fail
    <3> QED BY <2>2, <3>2, <3>3 DEF Fail, k
  <2>3. CASE RemoveExpired(t)
    <3>1. conn[t].ret \in Session
      BY <2>1, <2>3 DEF RemoveExpired, At, ConnOK, HasRet
    <3>2. CASE Goto(t, "release") /\ UNCHANGED <<mem, cache>>
      <4>1. Set(t, [conn[t] EXCEPT !.pc = "release"]) /\ [conn[t] EXCEPT !.pc = "release"].pc # "found"
        BY <2>1, <3>2 DEF Goto, k, Conns
      <4> QED BY <2>3, <3>1, <3>2, <4>1 DEF RemoveExpired
    <3>3. CASE LET u == Unlink(mem, cache, conn[t].ret) IN
               /\ u.found /\ mem' = u.mem /\ cache' = u.cache
               /\ Set(t, [conn[t] EXCEPT !.pc = "unlinked", !.back = "release"])
      <4> DEFINE c == [conn[t] EXCEPT !.pc = "unlinked", !.back = "release"]
      <4>1. "unlinked" \in PC
        BY DEF PC
      <4>2. c.pc = "unlinked"
        BY <2>1, <4>1, MildFields
      <4>3. Set(t, c) /\ c.pc # "found"
        BY <3>3, <4>2
      <4> HIDE DEF c
      <4> QED BY <2>3, <3>1, <3>3, <4>3 DEF RemoveExpired
    <3> QED BY <2>3, <3>2, <3>3 DEF RemoveExpired, k
  <2> QED BY <2>2, <2>3
<1>2. PICK c : Set(t, c) /\ c.pc # "found"
  BY <1>1
<1>3. CASE UNCHANGED <<mem, cache>>
  BY <1>2, <1>3, UsesKeep, Forgetting, MildStore DEF Mild
<1>4. CASE LET u == Unlink(mem, cache, s) IN u.found /\ mem' = u.mem /\ cache' = u.cache
  <2>1. /\ mem[s].id \in Id /\ <<mem[s].id, s>> \in cache.table
        /\ mem' = LessMem(mem, cache, s) /\ cache' = LessCache(mem, cache, mem[s].id, s)
    BY <1>4, Unlinks
  <2>2. cache'.table = cache.table \ {<<mem[s].id, s>>}
    BY <1>4, UnlinkShrinks
  <2>3. Forgotten(conn, conn')
    BY <1>2, Forgetting
  <2>4. Kept(LessMem(mem, cache, s), mem')
    BY <2>1, OldSame, OldIsKept
  <2>5. ~(Cardinality(cache.table) > CacheSize)
    BY <1>1, LockedOut, CalmBound
  <2> QED BY <2>1, <2>2, <2>3, <2>4, <2>5, CutStore
<1> QED BY <1>1, <1>3, <1>4

LEMMA RevokedStore ==
  ASSUME Inv, Inv', NoRenewal, UNCHANGED conn,
         NEW s \in Session, <<mem[s].id, s>> \in cache.table, mem[s].id \in Id,
         cache' = LessCache(mem, cache, mem[s].id, s),
         cache'.table = cache.table \ {<<mem[s].id, s>>},
         mem' = Revoked(LessMem(mem, cache, s), s),
         Cardinality(cache.table) > CacheSize => s = cache.tail
  PROVE  Store!Next
<1> DEFINE N == LessMem(mem, cache, s)
<1>1. N \in [Session -> Sessions]
  BY LessDead
<1>2. N[s].refs # 0
  <2>1. PICK i \in Id : i = mem[s].id
    OBVIOUS
  <2>2. <<i, s>> \in cache.table /\ mem[s].id = i
    BY <2>1
  <2>3. Relinked(mem, N)
    <3> DEFINE D == LessCache(mem, cache, i, s)
    <3>1. /\ Counted(N, cache.table, ext, Places) /\ Relinked(mem, N)
          /\ D \in Caches /\ D.table = cache.table \ {<<i, s>>}
      BY <2>2, CacheNow, LessOne
    <3> QED BY <3>1
  <2>4. s \in Cached(cache)
    BY DEF Cached
  <2>5. mem[s].live
    BY <2>4, CachedFacts
  <2>6. Sound(mem, HoldersIn(cache.table, ext, Places))
    BY DEF Inv, CountInv, Counted
  <2>7. mem[s].refs # 0
    BY <2>5, <2>6 DEF Sound
  <2> HIDE DEF N
  <2> QED BY <2>3, <2>7 DEF Relinked
<1>3. Kept(N, mem')
  <2>1. mem' = Revoked(N, s)
    OBVIOUS
  <2> HIDE DEF N
  <2> QED BY <1>1, <1>2, <2>1, RevokedKeep, OldIsKept
<1>4. Forgotten(conn, conn')
  BY SameForgotten
<1> QED BY <1>3, <1>4, CutStore

LEMMA EvictStore == ASSUME Inv, Inv', NoRenewal, NEW t \in Thread, EvictMore(t) PROVE Store!Next
<1>1. PICK s \in Session :
        /\ s = cache.tail /\ UNCHANGED conn /\ <<mem[s].id, s>> \in cache.table /\ mem[s].id \in Id
        /\ cache'.table = cache.table \ {<<mem[s].id, s>>}
        /\ cache' = LessCache(mem, cache, mem[s].id, s)
        /\ mem' = Revoked(LessMem(mem, cache, s), s)
  BY EvictTable
<1> QED BY <1>1, RevokedStore

LEMMA FlushOneStore == ASSUME Inv, Inv', BoundInv, NoRenewal, NEW t \in Thread, FlushOne(t) PROVE Store!Next
<1>1. NoLateFlush
  BY DEF NoLateFlush
<1>2. PICK s \in Session :
        /\ conn[t].pc = "flush" /\ UNCHANGED conn /\ <<mem[s].id, s>> \in cache.table /\ mem[s].id \in Id
        /\ cache'.table = cache.table \ {<<mem[s].id, s>>}
        /\ cache' = LessCache(mem, cache, mem[s].id, s)
        /\ mem' = Revoked(LessMem(mem, cache, s), s)
  BY <1>1, FlushOneTable
<1>3. ~(Cardinality(cache.table) > CacheSize)
  BY <1>2, LockedOut, CalmBound
<1> QED BY <1>2, <1>3, RevokedStore

LEMMA AddStore == ASSUME Inv, Inv', BoundInv, NoRenewal, NEW t \in Thread, AddSession(t) PROVE Store!Next
<1> DEFINE s == conn[t].ret
           i == mem[s].id
<1>1. PICK q : Listing(q, mem, cache)
  BY ListingNow
<1>2. /\ q \in Seq(Session) /\ IsList(q, mem, cache) /\ Elements(q) = Cached(cache)
      /\ \A x \in Elements(q) : x \in Session /\ mem[x].live
  BY <1>1 DEF Listing
<1>3. List = q
  BY <1>2, ListIsWalked DEF List
<1>4. conn[t] \in Conns /\ Len(q) \in Nat
  BY <1>2, UsingNow, LenProperties
<1>5. /\ conn[t].pc = "add" /\ lock = Null /\ s \in Session /\ i \in Id
      /\ \/ /\ s \in Cached(cache) /\ mem' = Free(mem, s)
            /\ Set(t, [conn[t] EXCEPT !.pc = IF conn[t].back = "notify" THEN "up" ELSE conn[t].back,
                                      !.ret = IF conn[t].back = "given" THEN @ ELSE Null])
            /\ UNCHANGED <<cache, lock>>
         \/ /\ s \notin Cached(cache) /\ Goto(t, "evict")
            /\ cache'.table = (cache.table \ Find(mem, cache, i)) \cup {<<i, s>>}
            /\ SameIds(mem, mem')
            /\ \/ Find(mem, cache, i) = {} /\ IsList(Push(s, q), mem', cache')
               \/ \E n \in 1..Len(q) : mem[q[n]].id = i /\ IsList(Push(s, Cut(q, n)), mem', cache')
  BY <1>2, AddSummary
<1>6. Len(q) <= CacheSize
  <2>1. ~(Cardinality(cache.table) > CacheSize) /\ Cardinality(cache.table) = Len(q)
    BY <1>2, <1>5, LockedOut, CalmBound, TableCount
  <2> QED BY <1>4, <2>1, SizesAssumption DEF SizesAssumption
<1>7. CASE /\ mem' = Free(mem, s)
           /\ Set(t, [conn[t] EXCEPT !.pc = IF conn[t].back = "notify" THEN "up" ELSE conn[t].back,
                                     !.ret = IF conn[t].back = "given" THEN @ ELSE Null])
           /\ UNCHANGED cache
  <2> DEFINE c == [conn[t] EXCEPT !.pc = IF conn[t].back = "notify" THEN "up" ELSE conn[t].back,
                                  !.ret = IF conn[t].back = "given" THEN conn[t].ret ELSE Null]
  <2>1. ConnOK(conn[t], lock = t)
    BY UsingNow
  <2>2. (IF conn[t].back = "notify" THEN "up" ELSE conn[t].back) \in PC \ {"found"}
    BY <1>5, <2>1 DEF ConnOK, PC
  <2>3. c.pc # "found"
    BY <1>4, <2>2, MildFields
  <2>4. Set(t, c)
    BY <1>7
  <2>5. s \in SessionOrNull
    BY <1>5, NullIs
  <2> HIDE DEF c, s
  <2> QED BY <1>7, <2>3, <2>4, <2>5, UsesKeep, Forgetting, MildStore DEF Mild
<1>8. CASE /\ s \notin Cached(cache) /\ Goto(t, "evict") /\ SameIds(mem, mem')
           /\ \/ Find(mem, cache, i) = {} /\ IsList(Push(s, q), mem', cache')
              \/ \E n \in 1..Len(q) : mem[q[n]].id = i /\ IsList(Push(s, Cut(q, n)), mem', cache')
  <2>1. "evict" \in PC
    BY DEF PC
  <2>2. Forgotten(conn, conn')
    BY <1>8, <2>1, ForgetGoto
  <2>3. PICK r : /\ IsList(r, mem', cache')
                 /\ \/ Find(mem, cache, i) = {} /\ r = Push(s, q)
                    \/ \E n \in 1..Len(q) : mem[q[n]].id = i /\ r = Push(s, Cut(q, n))
    BY <1>8
  <2>4. List' = r
    BY <2>3, ListIsWalked DEF List
  <2>5. cache' \in Caches /\ Counted(mem', cache'.table, ext', Places') /\ Linked(mem', cache')
    BY DEF Inv, Types, CountInv, LinkedInv
  <2>6. PICK p : Listing(p, mem', cache')
    BY <2>5, HasListing
  <2>7. p = r
    BY <2>3, <2>6, ListIsWalked DEF Listing
  <2>8. r \in Seq(Session) /\ \A x \in Elements(r) : x \in Session /\ mem'[x].live
    BY <2>6, <2>7 DEF Listing
  <2>9. \A x \in Elements(r) : mem'[x].id = mem[x].id
    BY <1>8, <2>8 DEF SameIds
  <2>10. Find(mem, cache, i) = {} => \A x \in Elements(q) : mem[x].id # i
    <3>1. \A e \in cache.table : e[1] = mem[e[2]].id
      BY CacheNow DEF Filed
    <3>2. ASSUME Find(mem, cache, i) = {}, NEW x \in Cached(cache), mem[x].id = i PROVE FALSE
      <4>1. PICK e \in cache.table : e[2] = x
        BY <3>2 DEF Cached
      <4> QED BY <3>1, <3>2, <4>1 DEF Find
    <3> QED BY <1>2, <3>2
  <2>11. Taken(q, r, s)
    BY <1>2, <1>5, <1>6, <1>8, <2>3, <2>10 DEF Taken
  <2> HIDE DEF s, i
  <2> QED BY <1>2, <1>3, <2>2, <2>4, <2>8, <2>9, <2>11, StoreStep
<1> QED BY <1>5, <1>7, <1>8

LEMMA NextStore == ASSUME Inv, Inv', BoundInv, NoRenewal, [Next]_vars PROVE [Store!Next]_(Store!vars)
<1>1. CASE UNCHANGED <<mem, cache, conn>>
  <2>1. Mild
    BY <1>1, OldSame, OldIsKept, SameForgotten DEF Mild
  <2> QED BY <1>1, <2>1, MildStore
<1>2. CASE UNCHANGED vars \/ Tick
  BY <1>1, <1>2 DEF vars, Tick
<1>3. ASSUME UNCHANGED <<cache, conn>>, \/ \E s \in Session : mem' = UpRef(mem, s)
                                       \/ \E s \in SessionOrNull : mem' = Free(mem, s)
      PROVE  Store!Next
  <2>1. mem \in [Session -> Sessions]
    BY PocketFacts
  <2>2. Kept(mem, mem')
    BY <1>3, <2>1, UpRefFacts, FreeFacts, OldIsKept
  <2> QED BY <1>3, <2>2, SameForgotten, MildStore DEF Mild
<1>4. CASE DropSession
  BY <1>3, <1>4, PocketFacts DEF DropSession
<1>5. ASSUME NEW t \in Thread, ThreadStep(t) PROVE Store!Next
  <2>1. CASE GetSession(t)
    <3>1. ConnOK(conn[t], lock = t)
      BY UsingNow
    <3>2. conn[t].sess \in Session
      BY <2>1, <3>1 DEF GetSession, At, ConnOK, HasSess
    <3> QED BY <1>3, <2>1, <3>2 DEF GetSession, k
  <2>2. CASE EvictDone(t)
    <3> DEFINE c == [conn[t] EXCEPT !.pc = conn[t].back, !.ret = IF conn[t].back = "given" THEN conn[t].ret ELSE Null]
    <3>1. conn[t] \in Conns /\ ConnOK(conn[t], lock = t) /\ conn[t].pc = "evict"
      BY <2>2, UsingNow DEF EvictDone, At
    <3>2. conn[t].back \in PC /\ conn[t].back # "found"
      BY <3>1 DEF ConnOK, PC
    <3>3. c.pc # "found"
      BY <3>1, <3>2, MildFields
    <3>4. Set(t, c) /\ UNCHANGED <<mem, cache>>
      BY <2>2 DEF EvictDone, k
    <3> HIDE DEF c
    <3> QED BY <3>3, <3>4, UsesKeep, Forgetting, MildStore DEF Mild
  <2>3. CASE Apart(t)
    <3>1. UNCHANGED cache
      BY <2>3, ApartFacts
    <3>2. CASE \E i \in Id : Lookup(t, i)
      BY <3>2, LookupStore
    <3>3. CASE ~\E i \in Id : Lookup(t, i)
      <4>1. Mild
        BY <2>3, <3>3, MildPlain, MildUses, MildNew DEF Apart
      <4> QED BY <3>1, <4>1, MildStore
    <3> QED BY <3>2, <3>3
  <2> QED BY <1>5, <2>1, <2>2, <2>3, FailStore, EvictStore, FlushOneStore, AddStore DEF ThreadStep, Apart
<1>6. CASE \E t \in Thread, i \in Id : Lookup(t, i)
  BY <1>6, LookupStore
<1> QED BY <1>2, <1>4, <1>5, <1>6 DEF Next

LEMMA InitStore == ASSUME Init, NoRenewal PROVE Store!Init
<1>1. Inv /\ cache.table = {} /\ mem = [s \in Session |-> Blank] /\ \A t \in Thread : conn[t] = NoConn
  BY InitInv DEF Init
<1>2. PICK q : Listing(q, mem, cache)
  BY <1>1, ListingNow
<1>3. Elements(q) = {} /\ q \in Seq(Session) /\ List = q
  BY <1>1, <1>2, ListIsWalked DEF Listing, Cached, List
<1>4. q = << >>
  <2>1. Len(q) \in Nat
    BY <1>3, LenProperties
  <2>2. Len(q) = 0
    <3>1. ASSUME Len(q) # 0 PROVE FALSE
      <4>1. 1 \in 1..Len(q)
        BY <2>1, <3>1
      <4>2. q[1] \in Elements(q)
        BY <4>1 DEF Elements
      <4> QED BY <1>3, <4>2
    <3> QED BY <3>1
  <2> QED BY <1>3, <2>2, EmptySeq
<1>5. \A s \in Session : mem[s].id = Null
  BY <1>1, BlankFacts
<1>6. [s \in Session |-> mem[s].id] \in [Session -> Id \cup {Null}]
  BY <1>5
<1>7. \A t \in Thread : conn[t].pc # "found"
  BY <1>1 DEF NoConn
<1> QED BY <1>3, <1>4, <1>6, <1>7 DEF Store!Init

(* The hash table with its buckets, the doubly linked list, the reference   *)
(* counts and the lock behave as a bounded store of sessions: a lookup      *)
(* finds exactly what is stored under the ID, a session takes the place of  *)
(* the one with its ID, and the oldest goes first, in every interleaving    *)
(* (SSL_CTX_add_session, remove_session_lock, ssl_get_prev_session,         *)
(* SSL_CTX_flush_sessions).                                                 *)
THEOREM StoreIsImplemented == ASSUME NoRenewal PROVE Spec => ImplementsStore
<1>1. NoLateFlush
  BY DEF NoLateFlush
<1>2. Spec => []Inv
  BY <1>1, SpecInv
<1>3. Init => BoundInv
  BY FS_EmptySet, SizesAssumption DEF Init, BoundInv, SizesAssumption
<1>4. Inv /\ BoundInv /\ [Next]_vars => BoundInv'
  BY NextBound
<1>5. Init => Store!Init
  BY InitStore
<1>6. Inv /\ Inv' /\ BoundInv /\ [Next]_vars => [Store!Next]_(Store!vars)
  BY NextStore
<1> QED BY <1>2, <1>3, <1>4, <1>5, <1>6, PTL DEF Spec, ImplementsStore, Store!Spec
=============================================================================

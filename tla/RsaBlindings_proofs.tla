-------------------------- MODULE RsaBlindings_proofs --------------------------
(***************************************************************************)
(* A blinding has one user at a time, for any number of threads, any limit *)
(* on the cache and any failures.  And as long as no allocation fails the  *)
(* blindings work: Kept says how often each pair was used, that the threads*)
(* about to add to the cache (Adders) bound what it outgrows its limit by, *)
(* and that no blinding is lost or left marked.                            *)
(***************************************************************************)
EXTENDS RsaBlindings, FiniteSetTheorems, SequenceTheorems, TLAPS

Holding(t) == user[t].at \in {"holds", "blinded", "ends"}

(* What thread t has is its own: not yet, or not, in the cache.            *)
Own(t) ==
  \/ user[t].at = "add"
  \/ Holding(t) /\ user[t].index = Uncached

Types ==
  /\ cached \in Seq(Blinding) /\ inuse \in Seq({0, 1})
  /\ Len(inuse) = Len(cached)
  /\ allocated \subseteq Blinding
  /\ user = [t \in Thread |-> user[t]]
  /\ \A t \in Thread :
       /\ user[t].at \in {"outside", "setup", "add", "holds", "blinded", "ends"}
       /\ Holding(t) => user[t].index \in Nat

(* Within the limit the cache has live blindings, each once.  The element  *)
(* one beyond it may have been freed, but is never found free.             *)
CacheInv ==
  /\ \A i \in 1..Len(cached) : i # Uncached => cached[i] \in allocated
  /\ \A i, j \in 1..Len(cached) :
       i # Uncached /\ j # Uncached /\ cached[i] = cached[j] => i = j
  /\ Uncached \in 1..Len(cached) => inuse[Uncached] = 1

(* A blinding from the cache is marked, one that is not is not in it.      *)
HoldersInv ==
  /\ \A t \in Thread : Holding(t) /\ user[t].index # Uncached =>
       /\ user[t].index \in 1..Len(cached)
       /\ cached[user[t].index] = user[t].blinding
       /\ inuse[user[t].index] = 1
  /\ \A t \in Thread : Own(t) =>
       \A i \in 1..Len(cached) : i # Uncached => cached[i] # user[t].blinding

Inv == Types /\ CacheInv /\ HoldersInv /\ BlindingIsExclusive
------------------------------------------------------------------------------
(* Only the thread that moves changes its place in private_transform.      *)
LEMMA OneMoves ==
  ASSUME Types, NEW t \in Thread, NEW to, Goes(t, to)
  PROVE  /\ user' = [u \in Thread |-> user'[u]]
         /\ user'[t] = to
         /\ \A u \in Thread \ {t} : user'[u] = user[u]
BY DEF Types, Goes

LEMMA UncachedIsNat == Uncached \in Nat /\ Uncached >= 2
BY BlindingAssumption DEF Uncached, BlindingAssumption

LEMMA InitInv == BlindingInit => Inv
<1>. SUFFICES ASSUME BlindingInit PROVE Inv
  OBVIOUS
<1>1. Types
  BY DEF BlindingInit, Types, Outside, Holding
<1>2. CacheInv /\ HoldersInv /\ BlindingIsExclusive
  BY DEF BlindingInit, CacheInv, HoldersInv, BlindingIsExclusive, Outside,
    Holding, Own, HasBlinding
<1>. QED BY <1>1, <1>2 DEF Inv

(* A free element of the cache is found and marked.                        *)
LEMMA FindKeeps ==
  ASSUME Inv, NEW t \in Thread, Get(t), Finds(t)
  PROVE  Inv'
<1>1. PICK i \in DOMAIN cached :
        /\ inuse[i] = 0
        /\ inuse' = [inuse EXCEPT ![i] = 1]
        /\ Goes(t, Holds(cached[i], i))
  BY DEF Finds
<1>2. /\ i \in 1..Len(cached) /\ i \in Nat /\ i # Uncached
      /\ cached' = cached /\ allocated' = allocated
      /\ inuse' \in Seq({0, 1}) /\ Len(inuse') = Len(inuse)
      /\ \A j \in 1..Len(cached) : inuse'[j] = IF j = i THEN 1 ELSE inuse[j]
  <2>1. /\ i \in 1..Len(cached) /\ i \in Nat
        /\ inuse' \in Seq({0, 1}) /\ Len(inuse') = Len(inuse)
        /\ \A j \in 1..Len(cached) : inuse'[j] = IF j = i THEN 1 ELSE inuse[j]
    <3>1. i \in 1..Len(cached) /\ i \in 1..Len(inuse) /\ inuse \in Seq({0, 1})
      BY <1>1 DEF Inv, Types
    <3>2. inuse' = [inuse EXCEPT ![i] = 1]
      BY <1>1
    <3>3. /\ inuse' \in Seq({0, 1}) /\ Len(inuse') = Len(inuse)
          /\ \A j \in 1..Len(inuse) : inuse'[j] = IF j = i THEN 1 ELSE inuse[j]
      BY <3>1, <3>2, ExceptSeq
    <3>4. i \in Nat /\ Len(inuse) = Len(cached)
      BY <3>1 DEF Inv, Types
    <3>. QED BY <3>1, <3>3, <3>4
  <2>2. i # Uncached
    <3>1. Uncached \in 1..Len(cached) => inuse[Uncached] = 1
      BY DEF Inv, CacheInv
    <3>2. inuse[i] = 0
      BY <1>1
    <3>. QED BY <3>1, <3>2, <2>1
  <2>. QED BY <2>1, <2>2 DEF Get
<1>3. /\ user' = [u \in Thread |-> user'[u]]
      /\ user'[t] = Holds(cached[i], i)
      /\ \A u \in Thread \ {t} : user'[u] = user[u]
  BY <1>1, OneMoves DEF Inv
<1>4. /\ user'[t].at = "holds" /\ user'[t].blinding = cached[i]
      /\ user'[t].index = i
  BY <1>3 DEF Holds
<1>5. \A u \in Thread \ {t} : HasBlinding(u) => user[u].blinding # cached[i]
  <2>. SUFFICES ASSUME NEW u \in Thread \ {t}, HasBlinding(u),
                       user[u].blinding = cached[i]
                PROVE  FALSE
    OBVIOUS
  <2>1. CASE Own(u)
    BY <2>1, <1>2 DEF Inv, HoldersInv
  <2>2. CASE ~Own(u)
    <3>1. Holding(u) /\ user[u].index # Uncached
      BY <2>2 DEF HasBlinding, Holding, Own
    <3>2. /\ user[u].index \in 1..Len(cached)
          /\ cached[user[u].index] = cached[i] /\ inuse[user[u].index] = 1
      BY <3>1 DEF Inv, HoldersInv
    <3>. QED BY <3>1, <3>2, <1>1, <1>2 DEF Inv, CacheInv
  <2>. QED BY <2>1, <2>2
<1>6. Types'
  BY <1>2, <1>3, <1>4 DEF Inv, Types, Holding
<1>7. CacheInv'
  BY <1>2 DEF Inv, CacheInv
<1>8. HoldersInv'
  <2>1. ASSUME NEW u \in Thread, Holding(u)', user'[u].index # Uncached
        PROVE  /\ user'[u].index \in 1..Len(cached')
               /\ cached'[user'[u].index] = user'[u].blinding
               /\ inuse'[user'[u].index] = 1
    <3>1. CASE u = t
      BY <3>1, <1>2, <1>4
    <3>2. CASE u # t
      BY <3>2, <2>1, <1>2, <1>3 DEF Inv, HoldersInv, Holding
    <3>. QED BY <3>1, <3>2
  <2>2. ASSUME NEW u \in Thread, Own(u)', NEW j \in 1..Len(cached'), j # Uncached
        PROVE  cached'[j] # user'[u].blinding
    <3>1. u # t
      BY <2>2, <1>2, <1>4 DEF Own
    <3>. QED BY <3>1, <2>2, <1>2, <1>3 DEF Inv, HoldersInv, Own, Holding
  <2>. QED BY <2>1, <2>2 DEF HoldersInv, Uncached
<1>9. BlindingIsExclusive'
  BY <1>2, <1>3, <1>4, <1>5 DEF Inv, BlindingIsExclusive, HasBlinding, CacheInv
<1>. QED BY <1>6, <1>7, <1>8, <1>9 DEF Inv

(* Steps that move the thread and leave cache and addresses alone, and     *)
(* leave it at most with what it had, in the same place.                   *)
LEMMA MoveKeeps ==
  ASSUME Inv, NEW t \in Thread, NEW to, Goes(t, to),
         UNCHANGED <<cached, inuse, allocated>>,
         to.at \in {"outside", "setup", "blinded", "ends"},
         to.at \in {"blinded", "ends"} =>
           /\ Holding(t)
           /\ to.blinding = user[t].blinding /\ to.index = user[t].index,
         to.at \in {"outside", "setup"} => user[t].at \in {"outside", "setup"}
  PROVE  Inv'
<1>1. /\ user' = [u \in Thread |-> user'[u]]
      /\ user'[t] = to
      /\ \A u \in Thread \ {t} : user'[u] = user[u]
  BY OneMoves DEF Inv
<1>2. Types'
  BY <1>1 DEF Inv, Types, Holding
<1>3. CacheInv'
  BY DEF Inv, CacheInv
<1>4. HoldersInv'
  BY <1>1 DEF Inv, HoldersInv, Holding, Own
<1>5. BlindingIsExclusive'
  BY <1>1 DEF Inv, BlindingIsExclusive, HasBlinding, Holding
<1>. QED BY <1>2, <1>3, <1>4, <1>5 DEF Inv

(* A new blinding has an address of its own.                               *)
LEMMA SetupKeeps ==
  ASSUME Inv, NEW t \in Thread, SetupBlinding(t)
  PROVE  Inv'
<1>1. ASSUME NEW b \in Blinding \ allocated,
             allocated' = allocated \union {b},
             Goes(t, IF user[t].overflow THEN Holds(b, Uncached) ELSE Adds(b))
      PROVE  Inv'
  <2>1. /\ user' = [u \in Thread |-> user'[u]]
        /\ user'[t] = IF user[t].overflow THEN Holds(b, Uncached) ELSE Adds(b)
        /\ \A u \in Thread \ {t} : user'[u] = user[u]
    BY <1>1, OneMoves DEF Inv
  <2>2. /\ user'[t].blinding = b
        /\ \/ user'[t].at = "holds" /\ user'[t].index = Uncached
           \/ user'[t].at = "add"
    BY <2>1 DEF Holds, Adds
  <2>3. UNCHANGED <<cached, inuse>>
    BY DEF SetupBlinding
  <2>4. Types'
    BY <2>1, <2>2, <2>3, <1>1, UncachedIsNat DEF Inv, Types, Holding
  <2>5. CacheInv'
    BY <2>3, <1>1 DEF Inv, CacheInv
  <2>6. HoldersInv'
    BY <2>1, <2>2, <2>3 DEF Inv, HoldersInv, CacheInv, Holding, Own
  <2>7. BlindingIsExclusive'
    BY <2>1, <2>2, <1>1 DEF Inv, BlindingIsExclusive, HasBlinding
  <2>. QED BY <2>4, <2>5, <2>6, <2>7 DEF Inv
<1>2. ASSUME Goes(t, Outside), UNCHANGED allocated
      PROVE  Inv'
  BY <1>2, MoveKeeps DEF SetupBlinding, Outside
<1>. QED BY <1>1, <1>2 DEF SetupBlinding

(* The cache grows by a marked element that is nowhere else in it, or the  *)
(* blinding is freed again.                                                *)
LEMMA AddKeeps ==
  ASSUME Inv, NEW t \in Thread, AddToCache(t)
  PROVE  Inv'
<1>. DEFINE b == user[t].blinding
            n == Len(cached) + 1
<1>1. /\ user[t].at = "add" /\ b \in allocated /\ Own(t)
      /\ \A i \in 1..Len(cached) : i # Uncached => cached[i] # b
      /\ \A u \in Thread \ {t} : HasBlinding(u) => user[u].blinding # b
  BY DEF Inv, AddToCache, HoldersInv, BlindingIsExclusive, HasBlinding, Own
<1>2. ASSUME cached' = Append(cached, b), inuse' = Append(inuse, 1),
             Goes(t, Holds(b, n)), UNCHANGED allocated
      PROVE  Inv'
  <2>1. /\ user' = [u \in Thread |-> user'[u]]
        /\ user'[t] = Holds(b, n)
        /\ \A u \in Thread \ {t} : user'[u] = user[u]
    BY <1>2, OneMoves DEF Inv
  <2>2. user'[t].at = "holds" /\ user'[t].blinding = b /\ user'[t].index = n
    BY <2>1 DEF Holds
  <2>3. /\ n \in Nat /\ cached' \in Seq(Blinding) /\ inuse' \in Seq({0, 1})
        /\ Len(cached') = n /\ Len(inuse') = n
        /\ cached'[n] = b /\ inuse'[n] = 1
        /\ \A i \in 1..Len(cached) : cached'[i] = cached[i] /\ inuse'[i] = inuse[i]
        /\ \A i \in 1..n : i \in 1..Len(cached) \/ i = n
        /\ Len(cached) \in Nat /\ n \notin 1..Len(cached)
    <3>1. /\ cached \in Seq(Blinding) /\ b \in Blinding /\ inuse \in Seq({0, 1})
          /\ Len(inuse) = Len(cached) /\ Len(cached) \in Nat
      BY <1>1 DEF Inv, Types
    <3>2. /\ cached' \in Seq(Blinding) /\ Len(cached') = n /\ cached'[n] = b
          /\ \A i \in 1..Len(cached) : cached'[i] = cached[i]
      BY <3>1, <1>2
    <3>3. /\ inuse' \in Seq({0, 1}) /\ Len(inuse') = n /\ inuse'[n] = 1
          /\ \A i \in 1..Len(cached) : inuse'[i] = inuse[i]
      <4>1. /\ Append(inuse, 1) \in Seq({0, 1})
            /\ Len(Append(inuse, 1)) = Len(inuse) + 1
            /\ \A i \in 1..Len(inuse) : Append(inuse, 1)[i] = inuse[i]
            /\ Append(inuse, 1)[Len(inuse) + 1] = 1
        BY <3>1, AppendProperties
      <4>. QED BY <4>1, <3>1, <1>2
    <3>. QED BY <3>1, <3>2, <3>3
  <2>4. Types'
    BY <2>1, <2>2, <2>3, <1>2 DEF Inv, Types, Holding
  <2>5. CacheInv'
    BY <2>3, <1>1, <1>2 DEF Inv, CacheInv
  <2>6. HoldersInv'
    <3>1. ASSUME NEW u \in Thread, Holding(u)', user'[u].index # Uncached
          PROVE  /\ user'[u].index \in 1..Len(cached')
                 /\ cached'[user'[u].index] = user'[u].blinding
                 /\ inuse'[user'[u].index] = 1
      <4>1. CASE u = t
        BY <4>1, <2>2, <2>3
      <4>2. CASE u # t
        BY <4>2, <3>1, <2>1, <2>3 DEF Inv, HoldersInv, Holding
      <4>. QED BY <4>1, <4>2
    <3>2. ASSUME NEW u \in Thread, Own(u)', NEW i \in 1..Len(cached'), i # Uncached
          PROVE  cached'[i] # user'[u].blinding
      <4>1. CASE u = t
        BY <4>1, <3>2, <2>2, <2>3, <1>1 DEF Own, Holding
      <4>2. CASE u # t
        BY <4>2, <3>2, <2>1, <2>3, <1>1 DEF Inv, HoldersInv, Own, Holding, HasBlinding
      <4>. QED BY <4>1, <4>2
    <3>. QED BY <3>1, <3>2 DEF HoldersInv, Uncached
  <2>7. BlindingIsExclusive'
    <3>1. ASSUME NEW u \in Thread, HasBlinding(u)'
          PROVE  HasBlinding(u) /\ user'[u].blinding = user[u].blinding
      <4>1. CASE u = t
        <5>1. user[t].at = "add" /\ user'[t].blinding = user[t].blinding
          BY <1>1, <2>2
        <5>. QED BY <4>1, <5>1 DEF HasBlinding
      <4>2. CASE u # t
        BY <4>2, <3>1, <2>1 DEF HasBlinding
      <4>. QED BY <4>1, <4>2
    <3>. QED BY <3>1, <1>2 DEF Inv, BlindingIsExclusive
  <2>. QED BY <2>4, <2>5, <2>6, <2>7 DEF Inv
<1>3. ASSUME Goes(t, Outside), allocated' = allocated \ {b}, UNCHANGED <<cached, inuse>>
      PROVE  Inv'
  <2>1. /\ user' = [u \in Thread |-> user'[u]]
        /\ user'[t].at = "outside"
        /\ \A u \in Thread \ {t} : user'[u] = user[u]
    BY <1>3, OneMoves DEF Inv, Outside
  <2>2. Types'
    BY <2>1, <1>3 DEF Inv, Types, Holding
  <2>3. CacheInv'
    BY <1>1, <1>3 DEF Inv, CacheInv
  <2>4. HoldersInv'
    BY <2>1, <1>3 DEF Inv, HoldersInv, Holding, Own
  <2>5. BlindingIsExclusive'
    BY <2>1, <1>1, <1>3 DEF Inv, BlindingIsExclusive, HasBlinding
  <2>. QED BY <2>2, <2>3, <2>4, <2>5 DEF Inv
<1>. QED BY <1>2, <1>3 DEF AddToCache, Grow

(* A cached blinding is unmarked; any other is freed, and is not in the    *)
(* cache within its limit.                                                 *)
LEMMA ReleaseKeeps ==
  ASSUME Inv, NEW t \in Thread, BlindingRelease(t)
  PROVE  Inv'
<1>. DEFINE b == user[t].blinding
            i == user[t].index
<1>1. /\ Holding(t) /\ HasBlinding(t) /\ i \in Nat
      /\ \A u \in Thread \ {t} : HasBlinding(u) => user[u].blinding # b
  BY DEF Inv, Types, BlindingRelease, HasBlinding, Holding, BlindingIsExclusive
<1>2. /\ user' = [u \in Thread |-> user'[u]]
      /\ user'[t].at = "outside"
      /\ \A u \in Thread \ {t} : user'[u] = user[u]
      /\ cached' = cached
  BY OneMoves DEF Inv, Outside, BlindingRelease
<1>3. CASE i = Uncached
  <2>1. allocated' = allocated \ {b} /\ inuse' = inuse
    BY <1>3 DEF BlindingRelease, Return
  <2>2. \A j \in 1..Len(cached) : j # Uncached => cached[j] # b
    BY <1>1, <1>3 DEF Inv, HoldersInv, Own
  <2>3. Types'
    BY <1>2, <2>1 DEF Inv, Types, Holding
  <2>4. CacheInv'
    BY <1>2, <2>1, <2>2 DEF Inv, CacheInv
  <2>5. HoldersInv'
    BY <1>2, <2>1 DEF Inv, HoldersInv, Holding, Own
  <2>6. BlindingIsExclusive'
    BY <1>1, <1>2, <2>1 DEF Inv, BlindingIsExclusive, HasBlinding
  <2>. QED BY <2>3, <2>4, <2>5, <2>6 DEF Inv
<1>4. CASE i # Uncached
  <2>1. /\ i \in 1..Len(cached) /\ cached[i] = b
        /\ allocated' = allocated /\ inuse' = [inuse EXCEPT ![i] = 0]
    BY <1>1, <1>4 DEF Inv, HoldersInv, BlindingRelease, Return
  <2>2. /\ inuse' \in Seq({0, 1}) /\ Len(inuse') = Len(inuse)
        /\ \A j \in 1..Len(cached) : j # i => inuse'[j] = inuse[j]
    BY <2>1 DEF Inv, Types
  <2>3. \A u \in Thread \ {t} : Holding(u) /\ user[u].index # Uncached => user[u].index # i
    BY <1>1, <2>1 DEF Inv, HoldersInv, Holding, HasBlinding
  <2>4. Types'
    BY <1>2, <2>1, <2>2 DEF Inv, Types, Holding
  <2>5. CacheInv'
    BY <1>2, <1>4, <2>1, <2>2 DEF Inv, CacheInv
  <2>6. HoldersInv'
    BY <1>2, <2>1, <2>2, <2>3 DEF Inv, HoldersInv, Holding, Own
  <2>7. BlindingIsExclusive'
    BY <1>2, <2>1 DEF Inv, BlindingIsExclusive, HasBlinding
  <2>. QED BY <2>4, <2>5, <2>6, <2>7 DEF Inv
<1>. QED BY <1>3, <1>4

LEMMA FreeKeeps ==
  ASSUME Inv, RsaFree
  PROVE  Inv'
<1>1. /\ cached' = <<>> /\ inuse' = <<>> /\ user' = user
      /\ allocated' \subseteq allocated /\ \A t \in Thread : user[t].at = "outside"
  BY DEF RsaFree, Outside
<1>2. Types'
  BY <1>1 DEF Inv, Types, Holding
<1>3. CacheInv' /\ HoldersInv' /\ BlindingIsExclusive'
  BY <1>1 DEF CacheInv, HoldersInv, BlindingIsExclusive, Holding, Own, HasBlinding
<1>. QED BY <1>2, <1>3 DEF Inv

LEMMA StepInv == Inv /\ [BlindingNext]_blindingVars => Inv'
<1>. SUFFICES ASSUME Inv, [BlindingNext]_blindingVars PROVE Inv'
  OBVIOUS
<1>1. ASSUME NEW t \in Thread, Get(t)
      PROVE  Inv'
  <2>1. CASE Finds(t)
    BY <1>1, <2>1, FindKeeps
  <2>2. CASE Goes(t, SetsUp(Len(cached) >= MaxBlindings)) /\ UNCHANGED inuse
    BY <1>1, <2>2, MoveKeeps DEF Get, SetsUp, Outside
  <2>. QED BY <1>1, <2>1, <2>2 DEF Get
<1>2. ASSUME NEW t \in Thread, SetupBlinding(t)
      PROVE  Inv'
  BY <1>2, SetupKeeps
<1>3. ASSUME NEW t \in Thread, AddToCache(t)
      PROVE  Inv'
  BY <1>3, AddKeeps
<1>4. ASSUME NEW t \in Thread, BlindingConvert(t)
      PROVE  Inv'
  <2>. DEFINE b == user[t].blinding
              i == user[t].index
  <2>1. PICK o \in Convert(pair[b]) :
          Goes(t, IF o.ok THEN Blinds(b, i, o.pair.counter) ELSE Ends(b, i, TRUE))
    BY <1>4 DEF BlindingConvert
  <2>2. Holding(t) /\ UNCHANGED <<cached, inuse, allocated>>
    BY <1>4 DEF BlindingConvert, Holding
  <2>3. CASE o.ok
    BY <2>1, <2>2, <2>3, MoveKeeps DEF Blinds
  <2>4. CASE ~o.ok
    BY <2>1, <2>2, <2>4, MoveKeeps DEF Ends
  <2>. QED BY <2>3, <2>4
<1>5. ASSUME NEW t \in Thread, BlindingInvert(t)
      PROVE  Inv'
  <2>1. PICK right : Goes(t, Ends(user[t].blinding, user[t].index, right))
    BY <1>5 DEF BlindingInvert
  <2>2. Holding(t) /\ UNCHANGED <<cached, inuse, allocated>>
    BY <1>5 DEF BlindingInvert, Holding
  <2>. QED BY <2>1, <2>2, MoveKeeps DEF Ends
<1>6. ASSUME NEW t \in Thread, BlindingRelease(t)
      PROVE  Inv'
  BY <1>6, ReleaseKeeps
<1>7. CASE RsaFree
  BY <1>7, FreeKeeps
<1>8. CASE UNCHANGED blindingVars
  BY <1>8 DEF blindingVars, Inv, Types, CacheInv, HoldersInv, BlindingIsExclusive,
    Holding, Own, HasBlinding
<1>. QED BY <1>1, <1>2, <1>3, <1>4, <1>5, <1>6, <1>7, <1>8 DEF BlindingNext

(* No two threads use the same blinding of a key, and none uses a freed    *)
(* one, whatever the number of threads and the limit on the cache          *)
(* (rsa_blinding_get, rsa_blinding_release).                               *)
THEOREM BlindingsAreExclusive == BlindingSpec => []BlindingIsExclusive
<1>1. Inv => BlindingIsExclusive
  BY DEF Inv
<1>. QED BY InitInv, StepInv, <1>1, PTL DEF BlindingSpec
------------------------------------------------------------------------------
(* A pair has been used once more than its counter says, and its halves    *)
(* match.                                                                  *)
Pairs == [counter : Int, uses : Int, match : BOOLEAN]
Sound(p) == p.match = TRUE /\ p.counter \in -1..Counter - 1 /\ p.uses = p.counter + 1

PairInv ==
  /\ faults \in Nat /\ pair \in [Blinding -> Pairs]
  /\ faults = 0 => \A b \in Blinding : Sound(pair[b])

(* Until it is taken off a blinding stays as it was put on.                *)
UseInv ==
  faults = 0 => \A t \in Thread :
    /\ user[t].at = "blinded" => user[t].with = pair[user[t].blinding].counter
    /\ user[t].at = "ends" => user[t].right = TRUE

(* The threads that found room in the cache and have not used it.          *)
Adders == {t \in Thread : user[t].at = "add" \/ (user[t].at = "setup" /\ ~user[t].overflow)}
BoundInv == Len(cached) + Cardinality(Adders) <= MaxBlindings - 1 + Cardinality(Thread)

(* No blinding is lost, and no element of the cache stays marked.          *)
LostInv ==
  \A b \in allocated :
    \/ \E i \in 1..Len(cached) : cached[i] = b
    \/ \E t \in Thread : HasBlinding(t) /\ user[t].blinding = b
MarkInv ==
  \A i \in 1..Len(cached) : i # Uncached /\ inuse[i] = 1 =>
    \E t \in Thread : Holding(t) /\ user[t].index = i

Kept == PairInv /\ UseInv /\ BoundInv /\ LostInv /\ MarkInv
------------------------------------------------------------------------------
LEMMA FreshIsSound == Fresh \in Pairs /\ Sound(Fresh)
BY BlindingAssumption DEF Fresh, Pairs, Sound

LEMMA PairFields ==
  ASSUME NEW q, NEW p \in Pairs, DOMAIN q = DOMAIN p, q = [x \in DOMAIN q |-> q[x]],
         q.counter \in Int, q.uses \in Int, q.match \in BOOLEAN
  PROVE  q \in Pairs
<1>1. q = [counter |-> q.counter, uses |-> q.uses, match |-> q.match]
  BY DEF Pairs
<1>. QED BY <1>1 DEF Pairs

LEMMA ConvertIsSound ==
  ASSUME NEW p \in Pairs, NEW o \in Convert(p)
  PROVE  /\ o.pair \in Pairs
         /\ Sound(p) /\ ~o.failed => o.ok /\ Sound(o.pair)
<1>. Counter \in Nat /\ Counter > 1
  BY BlindingAssumption
<1>0. p.counter \in Int /\ p.uses \in Int /\ p.match \in BOOLEAN
  BY DEF Pairs
<1>1. CASE p.counter = -1
  <2>. DEFINE used == [p EXCEPT !.counter = 0, !.uses = 1]
  <2>1. /\ used.counter = 0 /\ used.uses = 1 /\ used.match = p.match
        /\ DOMAIN used = DOMAIN p /\ used = [x \in DOMAIN used |-> used[x]]
    BY DEF Pairs
  <2>2. Convert(p) = {Outcome(used, FALSE, TRUE), Outcome(used, TRUE, FALSE)}
    BY <1>1 DEF Convert
  <2>. HIDE DEF used
  <2>3. used \in Pairs
    BY <1>0, <2>1, PairFields
  <2>4. Sound(p) => Sound(used)
    BY <1>0, <2>1 DEF Sound
  <2>. QED BY <2>2, <2>3, <2>4 DEF Outcome
<1>2. CASE p.counter # -1
  <2>. DEFINE n == (p.counter + 1) % Counter
              next == [p EXCEPT !.counter = (@ + 1) % Counter, !.uses = @ + 1]
              drawn == [next EXCEPT !.uses = 1, !.match = TRUE]
              torn == [next EXCEPT !.match = FALSE]
  <2>1. /\ n \in 0..Counter - 1
        /\ p.counter \in -1..Counter - 1 => n = 0 \/ n = p.counter + 1
    BY <1>0, <1>2
  <2>2. /\ next.counter = n /\ next.uses = p.uses + 1 /\ next.match = p.match
        /\ DOMAIN next = DOMAIN p /\ next = [x \in DOMAIN next |-> next[x]]
    BY DEF Pairs
  <2>3. Convert(p) = IF next.counter = 0
      THEN {Outcome(drawn, FALSE, TRUE), Outcome(drawn, TRUE, FALSE),
            Outcome(torn, TRUE, TRUE)}
      ELSE {Outcome(next, FALSE, TRUE), Outcome(next, TRUE, FALSE),
            Outcome(torn, TRUE, FALSE)}
    BY <1>2 DEF Convert, Updates
  <2>. HIDE DEF next, n
  <2>4. n \in Int
    BY <2>1
  <2>5. next \in Pairs
    BY <1>0, <2>2, <2>4, PairFields
  <2>6. /\ drawn.counter = n /\ drawn.uses = 1 /\ drawn.match = TRUE
        /\ DOMAIN drawn = DOMAIN next /\ drawn = [x \in DOMAIN drawn |-> drawn[x]]
        /\ torn.counter = n /\ torn.uses = p.uses + 1 /\ torn.match = FALSE
        /\ DOMAIN torn = DOMAIN next /\ torn = [x \in DOMAIN torn |-> torn[x]]
    BY <2>2, <2>5 DEF Pairs
  <2>. HIDE DEF drawn, torn
  <2>7. drawn \in Pairs /\ torn \in Pairs
    <3>1. drawn \in Pairs
      <4>1. drawn.counter \in Int /\ drawn.uses \in Int
        BY <2>4, <2>6
      <4>2. drawn.match \in BOOLEAN
        BY <2>6, Zenon
      <4>. QED BY <4>1, <4>2, <2>5, <2>6, PairFields
    <3>2. p.uses + 1 \in Int
      BY <1>0
    <3>. QED BY <2>4, <2>5, <2>6, <3>1, <3>2, PairFields
  <2>8. Sound(p) => (n = 0 => Sound(drawn)) /\ (n # 0 => Sound(next))
    BY <1>0, <2>1, <2>2, <2>6 DEF Sound
  <2>. QED BY <2>2, <2>3, <2>5, <2>7, <2>8 DEF Outcome
<1>. QED BY <1>1, <1>2

LEMMA AddersAreFinite == IsFiniteSet(Adders) /\ Cardinality(Adders) \in Nat
                         /\ Cardinality(Adders) <= Cardinality(Thread) /\ Cardinality(Thread) \in Nat
BY BlindingAssumption, FS_Subset, FS_CardinalityType DEF Adders

(* The bound follows where the cache does not grow and no thread finds     *)
(* room in it, and where it grows by one in the place of a thread.         *)
LEMMA FewerAdders ==
  ASSUME BoundInv, Adders' \subseteq Adders, Len(cached') <= Len(cached),
         Len(cached) \in Nat, Len(cached') \in Nat
  PROVE  BoundInv'
<1>1. Cardinality(Adders') \in Nat /\ Cardinality(Adders') <= Cardinality(Adders)
  BY AddersAreFinite, FS_Subset, FS_CardinalityType
<1>. QED BY <1>1, AddersAreFinite, BlindingAssumption DEF BoundInv
LEMMA OneLess ==
  ASSUME BoundInv, NEW t \in Adders, Adders' \subseteq Adders \ {t},
         Len(cached') = Len(cached) + 1, Len(cached) \in Nat
  PROVE  BoundInv'
<1>1. Cardinality(Adders \ {t}) = Cardinality(Adders) - 1 /\ IsFiniteSet(Adders \ {t})
  BY AddersAreFinite, FS_RemoveElement
<1>2. Cardinality(Adders') \in Nat /\ Cardinality(Adders') <= Cardinality(Adders \ {t})
  BY <1>1, FS_Subset, FS_CardinalityType
<1>. QED BY <1>1, <1>2, AddersAreFinite, BlindingAssumption DEF BoundInv

LEMMA InitKept == BlindingInit => Kept
<1>. SUFFICES ASSUME BlindingInit PROVE Kept
  OBVIOUS
<1>1. PairInv
  BY FreshIsSound DEF BlindingInit, PairInv
<1>2. UseInv /\ LostInv /\ MarkInv
  BY DEF BlindingInit, UseInv, LostInv, MarkInv, Outside, HasBlinding
<1>3. Adders = {}
  BY DEF BlindingInit, Adders, Outside
<1>4. Len(cached) = 0
  BY DEF BlindingInit
<1>5. BoundInv
  BY <1>3, <1>4, FS_EmptySet, FS_CardinalityType, BlindingAssumption DEF BoundInv
<1>. QED BY <1>1, <1>2, <1>5 DEF Kept
------------------------------------------------------------------------------
(* A thread that moves without room in the cache adds no adder.            *)
LEMMA MovesOut ==
  ASSUME Inv, NEW t \in Thread, NEW to, Goes(t, to), to.at \notin {"add", "setup"}
  PROVE  Adders' \subseteq Adders \ {t}
<1>1. user'[t] = to /\ \A u \in Thread \ {t} : user'[u] = user[u]
  BY OneMoves DEF Inv
<1>. QED BY <1>1 DEF Adders

LEMMA FindKept ==
  ASSUME Inv, Kept, NEW t \in Thread, Get(t), Finds(t)
  PROVE  Kept'
<1>1. PICK i \in DOMAIN cached :
        /\ inuse[i] = 0
        /\ inuse' = [inuse EXCEPT ![i] = 1]
        /\ Goes(t, Holds(cached[i], i))
  BY DEF Finds
<1>2. /\ user'[t] = Holds(cached[i], i)
      /\ \A u \in Thread \ {t} : user'[u] = user[u]
      /\ user[t].at = "outside"
      /\ UNCHANGED <<cached, allocated, pair, faults, released>>
  BY <1>1, OneMoves DEF Inv, Get, Outside
<1>3. user'[t].at = "holds" /\ user'[t].index = i /\ user'[t].blinding = cached[i]
  BY <1>2 DEF Holds
<1>4. i \in 1..Len(cached) /\ Len(cached) \in Nat
      /\ \A j \in 1..Len(cached) : j # i => inuse'[j] = inuse[j]
  BY <1>1 DEF Inv, Types
<1>5. PairInv' /\ UseInv'
  BY <1>2, <1>3 DEF Kept, PairInv, UseInv
<1>6. BoundInv'
  <2>1. Adders' \subseteq Adders
    BY <1>1, MovesOut DEF Holds
  <2>. QED BY <2>1, <1>2, <1>4, FewerAdders DEF Kept
<1>7. LostInv'
  BY <1>2, <1>3 DEF Kept, LostInv, HasBlinding
<1>8. MarkInv'
  BY <1>2, <1>3, <1>4 DEF Kept, MarkInv, Holding, Uncached
<1>. QED BY <1>5, <1>6, <1>7, <1>8 DEF Kept

LEMMA FullKept ==
  ASSUME Inv, Kept, NEW t \in Thread, Get(t), Goes(t, SetsUp(Len(cached) >= MaxBlindings)),
         UNCHANGED inuse
  PROVE  Kept'
<1>. DEFINE over == Len(cached) >= MaxBlindings
<1>1. /\ user'[t] = SetsUp(over)
      /\ \A u \in Thread \ {t} : user'[u] = user[u]
      /\ user[t].at = "outside"
      /\ UNCHANGED <<cached, inuse, allocated, pair, faults, released>>
  BY OneMoves DEF Inv, Get, Outside
<1>2. user'[t].at = "setup" /\ user'[t].overflow = over /\ Len(cached) \in Nat
  BY <1>1 DEF SetsUp, Inv, Types
<1>3. PairInv' /\ UseInv' /\ LostInv' /\ MarkInv'
  BY <1>1, <1>2 DEF Kept, PairInv, UseInv, LostInv, MarkInv, HasBlinding, Holding
<1>4. BoundInv'
  <2>1. CASE over
    <3>1. user'[t].overflow
      BY <2>1, <1>2
    <3>2. Adders' \subseteq Adders
      BY <3>1, <1>1, <1>2 DEF Adders
    <3>. QED BY <3>2, <1>1, <1>2, FewerAdders DEF Kept
  <2>2. CASE ~over
    <3>1. Cardinality(Adders') \in Nat /\ Cardinality(Adders') <= Cardinality(Thread)
      BY BlindingAssumption, FS_Subset, FS_CardinalityType DEF Adders
    <3>2. Cardinality(Thread) \in Nat
      BY AddersAreFinite
    <3>. QED BY <3>1, <3>2, <2>2, <1>1, <1>2, BlindingAssumption DEF BoundInv
  <2>. QED BY <2>1, <2>2
<1>. QED BY <1>3, <1>4 DEF Kept

LEMMA SetupKept ==
  ASSUME Inv, Kept, NEW t \in Thread, SetupBlinding(t)
  PROVE  Kept'
<1>0. UNCHANGED <<cached, inuse>> /\ user[t].at = "setup" /\ Len(cached) \in Nat
  BY DEF SetupBlinding, Inv, Types
<1>1. ASSUME NEW b \in Blinding \ allocated,
             allocated' = allocated \union {b},
             pair' = [pair EXCEPT ![b] = Fresh],
             Goes(t, IF user[t].overflow THEN Holds(b, Uncached) ELSE Adds(b)),
             UNCHANGED faults
      PROVE  Kept'
  <2>1. /\ user'[t] = (IF user[t].overflow THEN Holds(b, Uncached) ELSE Adds(b))
        /\ \A u \in Thread \ {t} : user'[u] = user[u]
    BY <1>1, OneMoves DEF Inv
  <2>2. /\ user'[t].blinding = b
        /\ \/ user[t].overflow /\ user'[t].at = "holds" /\ user'[t].index = Uncached
           \/ ~user[t].overflow /\ user'[t].at = "add"
    BY <2>1 DEF Holds, Adds
  <2>3. PairInv'
    BY <1>1, FreshIsSound DEF Kept, PairInv
  <2>4. UseInv'
    <3>1. \A u \in Thread \ {t} : HasBlinding(u) => user[u].blinding # b
      BY <1>1 DEF Inv, BlindingIsExclusive
    <3>2. \A u \in Thread : user'[u].at = "blinded" =>
            u # t /\ user[u].at = "blinded" /\ pair'[user'[u].blinding] = pair[user[u].blinding]
      BY <3>1, <2>1, <2>2, <1>1 DEF HasBlinding, Kept, PairInv
    <3>. QED BY <3>2, <2>1, <2>2, <1>1 DEF Kept, UseInv
  <2>5. BoundInv'
    <3>1. Adders' \subseteq Adders
      BY <2>1, <2>2, <1>0 DEF Adders
    <3>. QED BY <3>1, <1>0, FewerAdders DEF Kept
  <2>6. LostInv'
    <3>1. HasBlinding(t)' /\ user'[t].blinding = b
      BY <2>2 DEF HasBlinding
    <3>2. \A u \in Thread : HasBlinding(u) => u # t
      BY <1>0 DEF HasBlinding
    <3>. QED BY <3>1, <3>2, <2>1, <1>0, <1>1 DEF Kept, LostInv, HasBlinding
  <2>7. MarkInv'
    BY <1>0, <2>1 DEF Kept, MarkInv, Holding, Uncached
  <2>. QED BY <2>3, <2>4, <2>5, <2>6, <2>7 DEF Kept
<1>2. ASSUME Fails, Goes(t, Outside), UNCHANGED <<allocated, pair>>
      PROVE  Kept'
  <2>1. /\ user'[t].at = "outside"
        /\ \A u \in Thread \ {t} : user'[u] = user[u]
    BY <1>2, OneMoves DEF Inv, Outside
  <2>2. PairInv' /\ UseInv'
    BY <1>2 DEF Kept, PairInv, UseInv, Fails
  <2>3. LostInv' /\ MarkInv'
    BY <1>0, <1>2, <2>1 DEF Kept, LostInv, MarkInv, HasBlinding, Holding, Uncached
  <2>4. BoundInv'
    <3>1. Adders' \subseteq Adders
      BY <1>2, MovesOut DEF Outside
    <3>. QED BY <3>1, <1>0, FewerAdders DEF Kept
  <2>. QED BY <2>2, <2>3, <2>4 DEF Kept
<1>. QED BY <1>1, <1>2 DEF SetupBlinding

LEMMA AddKept ==
  ASSUME Inv, Kept, NEW t \in Thread, AddToCache(t)
  PROVE  Kept'
<1>. DEFINE b == user[t].blinding
            n == Len(cached) + 1
<1>0. /\ user[t].at = "add" /\ UNCHANGED pair /\ Len(cached) \in Nat
      /\ cached \in Seq(Blinding) /\ b \in Blinding /\ inuse \in Seq({0, 1})
      /\ Len(inuse) = Len(cached)
  BY DEF AddToCache, Inv, Types, BlindingIsExclusive, HasBlinding
<1>1. ASSUME cached' = Append(cached, b), inuse' = Append(inuse, 1),
             Goes(t, Holds(b, n)), UNCHANGED <<allocated, faults>>
      PROVE  Kept'
  <2>1. /\ user'[t] = Holds(b, n)
        /\ \A u \in Thread \ {t} : user'[u] = user[u]
    BY <1>1, OneMoves DEF Inv
  <2>2. user'[t].at = "holds" /\ user'[t].blinding = b /\ user'[t].index = n
    BY <2>1 DEF Holds
  <2>3. /\ Len(cached') = n /\ cached'[n] = b
        /\ \A i \in 1..Len(cached) : cached'[i] = cached[i]
    BY <1>0, <1>1
  <2>4. \A i \in 1..Len(cached) : inuse'[i] = inuse[i]
    BY <1>0, <1>1, AppendProperties
  <2>5. PairInv' /\ UseInv'
    BY <1>0, <1>1, <2>1, <2>2 DEF Kept, PairInv, UseInv
  <2>6. BoundInv'
    <3>1. Adders' \subseteq Adders \ {t} /\ t \in Adders
      BY <1>0, <1>1, MovesOut DEF Holds, Adders
    <3>. QED BY <3>1, <1>0, <2>3, OneLess DEF Kept
  <2>7. LostInv'
    <3>1. n \in 1..Len(cached') /\ \A i \in 1..Len(cached) : i \in 1..Len(cached')
      BY <1>0, <2>3
    <3>. QED BY <3>1, <1>0, <1>1, <2>1, <2>2, <2>3 DEF Kept, LostInv, HasBlinding
  <2>8. MarkInv'
    <3>. SUFFICES ASSUME NEW i \in 1..Len(cached'), i # Uncached, inuse'[i] = 1
                  PROVE  \E u \in Thread : Holding(u)' /\ user'[u].index = i
      BY DEF MarkInv, Uncached
    <3>1. CASE i = n
      BY <3>1, <2>2 DEF Holding
    <3>2. CASE i # n
      <4>1. i \in 1..Len(cached) /\ inuse[i] = 1
        BY <3>2, <1>0, <2>3, <2>4
      <4>2. PICK u \in Thread : Holding(u) /\ user[u].index = i
        BY <4>1 DEF Kept, MarkInv
      <4>. QED BY <4>2, <1>0, <2>1 DEF Holding
    <3>. QED BY <3>1, <3>2
  <2>. QED BY <2>5, <2>6, <2>7, <2>8 DEF Kept
<1>2. ASSUME Fails, Goes(t, Outside), allocated' = allocated \ {b},
             UNCHANGED <<cached, inuse>>
      PROVE  Kept'
  <2>1. /\ user'[t].at = "outside"
        /\ \A u \in Thread \ {t} : user'[u] = user[u]
    BY <1>2, OneMoves DEF Inv, Outside
  <2>2. PairInv' /\ UseInv'
    BY <1>0, <1>2 DEF Kept, PairInv, UseInv, Fails
  <2>3. LostInv'
    BY <1>2, <2>1 DEF Kept, LostInv, HasBlinding
  <2>4. MarkInv'
    BY <1>0, <1>2, <2>1 DEF Kept, MarkInv, Holding, Uncached
  <2>5. BoundInv'
    <3>1. Adders' \subseteq Adders
      BY <1>2, MovesOut DEF Outside
    <3>. QED BY <3>1, <1>0, <1>2, FewerAdders DEF Kept
  <2>. QED BY <2>2, <2>3, <2>4, <2>5 DEF Kept
<1>. QED BY <1>1, <1>2 DEF AddToCache, Grow
------------------------------------------------------------------------------
(* The steps that keep the cache, and leave a thread what it has.          *)
LEMMA StaysKept ==
  ASSUME Inv, Kept, NEW t \in Thread, NEW to, Goes(t, to), Holding(t),
         to.at \in {"blinded", "ends"},
         to.blinding = user[t].blinding, to.index = user[t].index,
         UNCHANGED <<cached, inuse, allocated>>, PairInv', UseInv'
  PROVE  Kept'
<1>1. /\ user'[t] = to
      /\ \A u \in Thread \ {t} : user'[u] = user[u]
      /\ Len(cached) \in Nat
  BY OneMoves DEF Inv, Types
<1>2. BoundInv'
  <2>1. Adders' \subseteq Adders
    BY MovesOut
  <2>. QED BY <2>1, <1>1, FewerAdders DEF Kept
<1>3. LostInv'
  BY <1>1 DEF Kept, LostInv, HasBlinding
<1>4. MarkInv'
  BY <1>1 DEF Kept, MarkInv, Holding, Uncached
<1>. QED BY <1>2, <1>3, <1>4 DEF Kept

LEMMA ConvertKept ==
  ASSUME Inv, Kept, NEW t \in Thread, BlindingConvert(t)
  PROVE  Kept'
<1>. DEFINE b == user[t].blinding
            i == user[t].index
<1>1. PICK o \in Convert(pair[b]) :
        /\ IF o.failed THEN Fails ELSE UNCHANGED faults
        /\ pair' = [pair EXCEPT ![b] = o.pair]
        /\ Goes(t, IF o.ok THEN Blinds(b, i, o.pair.counter) ELSE Ends(b, i, TRUE))
  BY DEF BlindingConvert
<1>2. /\ user[t].at = "holds" /\ Holding(t) /\ HasBlinding(t)
      /\ b \in allocated /\ b \in Blinding
      /\ UNCHANGED <<cached, inuse, allocated>>
  BY DEF BlindingConvert, Holding, HasBlinding, Inv, BlindingIsExclusive, Types
<1>. DEFINE to == IF o.ok THEN Blinds(b, i, o.pair.counter) ELSE Ends(b, i, TRUE)
<1>3. /\ to.at \in {"blinded", "ends"} /\ to.blinding = b /\ to.index = i
      /\ to.at = "blinded" => to.with = o.pair.counter
      /\ to.at = "ends" => to.right = TRUE
  BY DEF Blinds, Ends
<1>4. Goes(t, to)
  BY <1>1
<1>. HIDE DEF to
<1>5. /\ user'[t] = to
      /\ \A u \in Thread \ {t} : user'[u] = user[u]
  BY <1>4, OneMoves DEF Inv
<1>6. pair[b] \in Pairs /\ o.pair \in Pairs /\ faults \in Nat
      /\ pair' \in [Blinding -> Pairs] /\ pair'[b] = o.pair
      /\ \A c \in Blinding \ {b} : pair'[c] = pair[c]
  <2>1. pair[b] \in Pairs /\ faults \in Nat /\ pair \in [Blinding -> Pairs]
    BY <1>2 DEF Kept, PairInv
  <2>2. o.pair \in Pairs
    BY <2>1, ConvertIsSound
  <2>. QED BY <2>1, <2>2, <1>1, <1>2
<1>7. PairInv'
  <2>1. faults' \in Nat /\ (faults' = 0 => faults = 0 /\ ~o.failed)
    BY <1>1, <1>6, BlindingAssumption DEF Fails
  <2>2. faults' = 0 => Sound(pair[b])
    BY <2>1, <1>2 DEF Kept, PairInv
  <2>3. faults' = 0 => Sound(o.pair)
    BY <2>1, <2>2, <1>6, ConvertIsSound
  <2>4. faults' = 0 => \A c \in Blinding : Sound(pair'[c])
    BY <2>1, <2>3, <1>6 DEF Kept, PairInv
  <2>. QED BY <2>1, <2>4, <1>6 DEF PairInv, Sound
<1>8. UseInv'
  <2>1. faults' = 0 => faults = 0
    BY <1>1, <1>6 DEF Fails
  <2>2. \A u \in Thread \ {t} : user[u].at = "blinded" =>
          user[u].blinding # b /\ user[u].blinding \in Blinding
    BY <1>2 DEF Inv, BlindingIsExclusive, HasBlinding, Types
  <2>. QED BY <2>1, <2>2, <1>3, <1>5, <1>6 DEF Kept, UseInv
<1>. QED BY <1>2, <1>3, <1>4, <1>7, <1>8, StaysKept

LEMMA InvertKept ==
  ASSUME Inv, Kept, NEW t \in Thread, BlindingInvert(t)
  PROVE  Kept'
<1>. DEFINE b == user[t].blinding
            i == user[t].index
            ok == pair[b].match /\ pair[b].counter = user[t].with
<1>1. /\ user[t].at = "blinded" /\ Holding(t) /\ HasBlinding(t) /\ b \in Blinding
      /\ UNCHANGED <<cached, inuse, allocated, pair>>
  BY DEF BlindingInvert, Holding, HasBlinding, Inv, BlindingIsExclusive, Types
<1>2. faults' \in Nat /\ (faults' = 0 => faults = 0)
  <2>1. Fails \/ faults' = faults
    BY DEF BlindingInvert
  <2>2. faults \in Nat
    BY DEF Kept, PairInv
  <2>. QED BY <2>1, <2>2, BlindingAssumption DEF Fails
<1>3. PairInv'
  BY <1>1, <1>2 DEF Kept, PairInv
<1>4. PICK right : /\ Goes(t, Ends(b, i, right))
                   /\ faults' = 0 => right = TRUE
  <2>1. faults' = 0 => ok
    BY <1>1, <1>2 DEF Kept, PairInv, Sound, UseInv
  <2>2. CASE Goes(t, Ends(b, i, ok))
    <3>1. faults' = 0 => ok = TRUE
      BY <2>1
    <3>. HIDE DEF ok
    <3>. QED BY <2>2, <3>1
  <2>3. CASE Goes(t, Ends(b, i, TRUE))
    BY <2>3
  <2>. QED BY <2>2, <2>3 DEF BlindingInvert
<1>. DEFINE to == Ends(b, i, right)
<1>5. to.at = "ends" /\ to.blinding = b /\ to.index = i /\ to.right = right
  BY DEF Ends
<1>6. Goes(t, to)
  BY <1>4
<1>. HIDE DEF to
<1>7. /\ user'[t] = to
      /\ \A u \in Thread \ {t} : user'[u] = user[u]
  BY <1>6, OneMoves DEF Inv
<1>8. UseInv'
  BY <1>1, <1>2, <1>4, <1>5, <1>7 DEF Kept, UseInv
<1>. QED BY <1>1, <1>3, <1>5, <1>6, <1>8, StaysKept

LEMMA ReleaseKept ==
  ASSUME Inv, Kept, NEW t \in Thread, BlindingRelease(t)
  PROVE  Kept'
<1>. DEFINE b == user[t].blinding
            i == user[t].index
<1>1. /\ Holding(t) /\ HasBlinding(t) /\ i \in Nat /\ Len(cached) \in Nat
      /\ Goes(t, Outside) /\ UNCHANGED <<cached, pair, faults>>
  BY DEF BlindingRelease, Inv, Types, HasBlinding, Holding
<1>2. /\ user'[t].at = "outside"
      /\ \A u \in Thread \ {t} : user'[u] = user[u]
  BY <1>1, OneMoves DEF Inv, Outside
<1>3. PairInv' /\ UseInv'
  BY <1>1, <1>2 DEF Kept, PairInv, UseInv
<1>4. BoundInv'
  <2>1. Adders' \subseteq Adders
    BY <1>1, MovesOut DEF Outside
  <2>. QED BY <2>1, <1>1, FewerAdders DEF Kept
<1>5. CASE i = Uncached
  <2>1. allocated' = allocated \ {b} /\ inuse' = inuse
    BY <1>5 DEF BlindingRelease, Return
  <2>2. LostInv'
    BY <2>1, <1>1, <1>2 DEF Kept, LostInv, HasBlinding
  <2>3. MarkInv'
    BY <2>1, <1>1, <1>2, <1>5 DEF Kept, MarkInv, Holding, Uncached
  <2>. QED BY <2>2, <2>3, <1>3, <1>4 DEF Kept
<1>6. CASE i # Uncached
  <2>1. /\ i \in 1..Len(cached) /\ cached[i] = b
        /\ allocated' = allocated /\ inuse' = [inuse EXCEPT ![i] = 0]
    BY <1>1, <1>6 DEF Inv, HoldersInv, BlindingRelease, Return
  <2>2. inuse'[i] = 0 /\ \A j \in 1..Len(cached) : j # i => inuse'[j] = inuse[j]
    BY <2>1 DEF Inv, Types
  <2>3. LostInv'
    BY <2>1, <1>1, <1>2 DEF Kept, LostInv, HasBlinding
  <2>4. MarkInv'
    BY <2>2, <1>1, <1>2 DEF Kept, MarkInv, Holding, Uncached
  <2>. QED BY <2>3, <2>4, <1>3, <1>4 DEF Kept
<1>. QED BY <1>5, <1>6

LEMMA FreeKept ==
  ASSUME Inv, Kept, RsaFree
  PROVE  Kept'
<1>1. /\ UNCHANGED <<pair, user, faults>> /\ cached' = <<>> /\ Len(cached) \in Nat
      /\ \A t \in Thread : user[t].at = "outside"
      /\ allocated' = allocated \ {cached[i] : i \in DOMAIN cached}
      /\ DOMAIN cached = 1..Len(cached)
  BY DEF RsaFree, Outside, Inv, Types
<1>2. PairInv' /\ UseInv'
  BY <1>1 DEF Kept, PairInv, UseInv
<1>3. allocated' = {}
  BY <1>1 DEF Kept, LostInv, HasBlinding
<1>4. Len(cached') = 0
  BY <1>1
<1>5. LostInv' /\ MarkInv'
  BY <1>3, <1>4 DEF LostInv, MarkInv
<1>6. BoundInv'
  <2>1. Adders' \subseteq Adders
    BY <1>1 DEF Adders
  <2>. QED BY <2>1, <1>1, <1>4, FewerAdders DEF Kept
<1>. QED BY <1>2, <1>5, <1>6 DEF Kept

LEMMA StepKept == Inv /\ Kept /\ [BlindingNext]_blindingVars => Kept'
<1>. SUFFICES ASSUME Inv, Kept, [BlindingNext]_blindingVars PROVE Kept'
  OBVIOUS
<1>1. ASSUME NEW t \in Thread, Get(t)
      PROVE  Kept'
  BY <1>1, FindKept, FullKept DEF Get
<1>2. ASSUME NEW t \in Thread, SetupBlinding(t)
      PROVE  Kept'
  BY <1>2, SetupKept
<1>3. ASSUME NEW t \in Thread, AddToCache(t)
      PROVE  Kept'
  BY <1>3, AddKept
<1>4. ASSUME NEW t \in Thread, BlindingConvert(t)
      PROVE  Kept'
  BY <1>4, ConvertKept
<1>5. ASSUME NEW t \in Thread, BlindingInvert(t)
      PROVE  Kept'
  BY <1>5, InvertKept
<1>6. ASSUME NEW t \in Thread, BlindingRelease(t)
      PROVE  Kept'
  BY <1>6, ReleaseKept
<1>7. CASE RsaFree
  BY <1>7, FreeKept
<1>8. CASE UNCHANGED blindingVars
  BY <1>8 DEF blindingVars, Kept, PairInv, UseInv, BoundInv, Adders, LostInv, MarkInv,
    HasBlinding, Holding
<1>. QED BY <1>1, <1>2, <1>3, <1>4, <1>5, <1>6, <1>7, <1>8 DEF BlindingNext

LEMMA KeptSuffices == Inv /\ Kept => BlindingsAreKept
<1>. SUFFICES ASSUME Inv, Kept PROVE BlindingsAreKept
  OBVIOUS
<1>1. /\ Len(cached) \in Nat /\ DOMAIN cached = 1..Len(cached) /\ allocated \subseteq Blinding
      /\ MaxBlindings \in Nat
  BY BlindingAssumption DEF Inv, Types
<1>2. ResultsAreUnblinded
  BY DEF Kept, UseInv, ResultsAreUnblinded
<1>3. PairsAreRedrawn
  <2>. SUFFICES ASSUME faults = 0, NEW b \in allocated PROVE pair[b].uses <= Counter
    BY DEF PairsAreRedrawn
  <2>1. Sound(pair[b]) /\ b \in Blinding
    BY <1>1 DEF Kept, PairInv
  <2>. QED BY <2>1, BlindingAssumption DEF Sound
<1>4. Len(cached) < MaxBlindings + Cardinality(Thread)
  BY <1>1, AddersAreFinite DEF Kept, BoundInv
<1>5. ASSUME Len(cached) <= MaxBlindings
      PROVE  /\ \A i, j \in DOMAIN cached :
                  cached[i] \in allocated /\ (cached[i] = cached[j] => i = j)
             /\ \A b \in allocated :
                  \/ \E i \in DOMAIN cached : cached[i] = b
                  \/ \E t \in Thread : HasBlinding(t) /\ user[t].blinding = b
             /\ \A i \in DOMAIN cached : inuse[i] = 1 =>
                  \E t \in Thread : HasBlinding(t) /\ user[t].at # "add" /\ user[t].index = i
  <2>1. \A i \in DOMAIN cached : i # Uncached
    BY <1>1, <1>5 DEF Uncached
  <2>2. \A i, j \in DOMAIN cached : cached[i] \in allocated /\ (cached[i] = cached[j] => i = j)
    BY <1>1, <2>1 DEF Inv, CacheInv
  <2>3. \A b \in allocated : \/ \E i \in DOMAIN cached : cached[i] = b
                             \/ \E t \in Thread : HasBlinding(t) /\ user[t].blinding = b
    BY <1>1 DEF Kept, LostInv
  <2>4. \A i \in DOMAIN cached : inuse[i] = 1 =>
          \E t \in Thread : HasBlinding(t) /\ user[t].at # "add" /\ user[t].index = i
    BY <1>1, <2>1 DEF Kept, MarkInv, Holding, HasBlinding
  <2>. QED BY <2>2, <2>3, <2>4
<1>6. CacheIsSound
  BY <1>4, <1>5 DEF CacheIsSound
<1>. QED BY <1>2, <1>3, <1>6 DEF BlindingsAreKept

(* Without failed allocations a result is unblinded with the partner of what *)
(* it was blinded with and no pair is used too often; the cache outgrows its *)
(* limit by at most one blinding less than there are threads, and within it  *)
(* nothing is lost, doubled or left marked (rsa_blinding_get, rsa_blinding_  *)
(* release, BN_BLINDING_update).                                             *)
THEOREM BlindingsWork == BlindingSpec => []BlindingsAreKept
<1>1. Inv /\ Kept /\ [BlindingNext]_blindingVars => Inv' /\ Kept'
  BY StepInv, StepKept
<1>2. BlindingInit => Inv /\ Kept
  BY InitInv, InitKept
<1>. QED BY <1>1, <1>2, KeptSuffices, PTL DEF BlindingSpec
=============================================================================

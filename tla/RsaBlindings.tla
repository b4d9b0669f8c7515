----------------------------- MODULE RsaBlindings -----------------------------
(***************************************************************************)
(* The blindings of one RSA key: crypto/rsa/rsa_impl.c hands them to the   *)
(* threads that use the key, crypto/rsa/blinding.c keeps each one fresh.   *)
(*                                                                         *)
(* A blinding is a pair (A, Ai) with A = Ai^-e.  A private operation       *)
(* multiplies by A before and by Ai after it, so it is right only if both  *)
(* belong to the same state of the pair: what rsa_blinding_get promises is *)
(* that nobody else moves the pair in between.  The locked sections of     *)
(* CRYPTO_LOCK_RSA_BLINDING are one step each, the pair is used without    *)
(* the lock, in steps of its own.                                          *)
(*                                                                         *)
(* Numbers are left out: a pair is its counter, and whether A and Ai still *)
(* belong together.  RSA_FLAG_NO_BLINDING has no state.                    *)
(***************************************************************************)
EXTENDS Naturals, Integers, Sequences, FiniteSets

CONSTANTS
  Thread,         \* the threads that hold a reference to the key
  Blinding,       \* addresses of BN_BLINDING objects
  MaxBlindings,   \* MAX_BLINDINGS_PER_RSA
  Counter,        \* BN_BLINDING_COUNTER
  MaxFaults       \* a bound on failed allocations

ASSUME BlindingAssumption ==
  /\ MaxBlindings \in Nat \ {0}
  /\ Counter \in Nat \ {0, 1}
  /\ MaxFaults \in Nat
  /\ IsFiniteSet(Thread)

VARIABLES
  cached,     \* rsa->blindings, a sequence of addresses
  inuse,      \* rsa->blindings_inuse
  allocated,  \* the addresses that hold a live BN_BLINDING
  pair,       \* pair[b]: counter, uses since (A, Ai) was drawn, and whether they match
  user,       \* user[t]: where thread t is in private_transform, and with what
  faults,     \* failed allocations so far
  released    \* RSA_free dropped the last reference

blindingVars == <<cached, inuse, allocated, pair, user, faults, released>>

(* The position after the last a cache may have; as an index it is         *)
(* MAX_BLINDINGS_PER_RSA, "this blinding wasn't cached".                   *)
Uncached == MaxBlindings + 1

Fresh == [counter |-> -1, uses |-> 0, match |-> TRUE]
Outside == [at |-> "outside"]
SetsUp(over) == [at |-> "setup", overflow |-> over]
Adds(b) == [at |-> "add", blinding |-> b]
Holds(b, i) == [at |-> "holds", blinding |-> b, index |-> i]
Blinds(b, i, c) == [at |-> "blinded", blinding |-> b, index |-> i, with |-> c]
Ends(b, i, ok) == [at |-> "ends", blinding |-> b, index |-> i, right |-> ok]

Goes(t, to) == user' = [user EXCEPT ![t] = to]
Fails == faults < MaxFaults /\ faults' = faults + 1
------------------------------------------------------------------------------
BlindingInit ==
  /\ cached = <<>> /\ inuse = <<>> /\ allocated = {}
  /\ pair = [b \in Blinding |-> Fresh]      \* of no meaning yet
  /\ user = [t \in Thread |-> Outside]
  /\ faults = 0 /\ released = FALSE

(* The first locked section of rsa_blinding_get.  The search starts at an  *)
(* index that depends on the thread, so any free element may be found.     *)
FindsUnmarked(t) ==                         \* fault: inuse[i] stays 0
  \E i \in DOMAIN cached :
    /\ inuse[i] = 0
    /\ UNCHANGED inuse
    /\ Goes(t, Holds(cached[i], i))
Finds(t) ==
  \E i \in DOMAIN cached :
    /\ inuse[i] = 0
    /\ inuse' = [inuse EXCEPT ![i] = 1]
    /\ Goes(t, Holds(cached[i], i))

Get(t) ==
  /\ ~released /\ user[t] = Outside
  /\ \/ Finds(t)
     \/ /\ \A i \in DOMAIN cached : inuse[i] = 1
        /\ Goes(t, SetsUp(Len(cached) >= MaxBlindings))
        /\ UNCHANGED inuse
  /\ UNCHANGED <<cached, allocated, pair, faults, released>>

(* rsa_setup_blinding, outside the lock.                                   *)
SetupBlinding(t) ==
  /\ user[t].at = "setup"
  /\ \/ \E b \in Blinding \ allocated :
          /\ allocated' = allocated \union {b}
          /\ pair' = [pair EXCEPT ![b] = Fresh]
          /\ Goes(t, IF user[t].overflow THEN Holds(b, Uncached) ELSE Adds(b))
          /\ UNCHANGED faults
     \/ /\ Fails /\ Goes(t, Outside) /\ UNCHANGED <<allocated, pair>>
  /\ UNCHANGED <<cached, inuse, released>>

(* The second locked section: the arrays grow by one.                      *)
Grow(t) ==
  /\ cached' = Append(cached, user[t].blinding)
  /\ inuse' = Append(inuse, 1)

AddToCache(t) ==
  /\ user[t].at = "add"
  /\ \/ /\ Grow(t)
        /\ Goes(t, Holds(user[t].blinding, Len(cached) + 1))
        /\ UNCHANGED <<allocated, faults>>
     \/ /\ Fails /\ Goes(t, Outside)
        /\ allocated' = allocated \ {user[t].blinding}
        /\ UNCHANGED <<cached, inuse>>
  /\ UNCHANGED <<pair, released>>

(* BN_BLINDING_update: what the pair may become, whether an allocation     *)
(* failed, and what the function returns.  BN_BLINDING_create_param        *)
(* returns the blinding it was given also when it fails, so a failure to   *)
(* draw a new pair goes unnoticed; a failure between the two squarings     *)
(* leaves A squared and Ai not.                                            *)
Outcome(p, failed, ok) == [pair |-> p, failed |-> failed, ok |-> ok]
UpdatesOnlyA(p) ==                          \* fault: Ai is left as it was
  {Outcome([p EXCEPT !.counter = (@ + 1) % Counter, !.uses = 1, !.match = FALSE],
           FALSE, TRUE)}
UpdatesForever(p) ==                        \* fault: the pair is never redrawn
  LET squared == [p EXCEPT !.counter = (@ + 1) % Counter, !.uses = @ + 1]
  IN  {Outcome(squared, FALSE, TRUE), Outcome(squared, TRUE, FALSE)}
Updates(p) ==
  LET next == [p EXCEPT !.counter = (@ + 1) % Counter, !.uses = @ + 1]
      drawn == [next EXCEPT !.uses = 1, !.match = TRUE]
  IN  IF next.counter = 0
      THEN {Outcome(drawn, FALSE, TRUE), Outcome(drawn, TRUE, FALSE),
            Outcome([next EXCEPT !.match = FALSE], TRUE, TRUE)}
      ELSE {Outcome(next, FALSE, TRUE), Outcome(next, TRUE, FALSE),
            Outcome([next EXCEPT !.match = FALSE], TRUE, FALSE)}

(* BN_BLINDING_convert_ex: a fresh pair needs no update before its first   *)
(* use; the multiplication by A may fail.                                  *)
Convert(p) ==
  IF p.counter = -1
  THEN LET used == [p EXCEPT !.counter = 0, !.uses = 1]
       IN  {Outcome(used, FALSE, TRUE), Outcome(used, TRUE, FALSE)}
  ELSE Updates(p)

BlindingConvert(t) ==
  /\ user[t].at = "holds"
  /\ LET b == user[t].blinding
         i == user[t].index
     IN \E o \in Convert(pair[b]) :
          /\ IF o.failed THEN Fails ELSE UNCHANGED faults
          /\ pair' = [pair EXCEPT ![b] = o.pair]
          /\ Goes(t, IF o.ok THEN Blinds(b, i, o.pair.counter)
                             ELSE Ends(b, i, TRUE))
  /\ UNCHANGED <<cached, inuse, allocated, released>>

(* The private operation and BN_BLINDING_invert_ex: either may fail; the   *)
(* result is right if Ai is the partner of the A that was multiplied in.   *)
BlindingInvert(t) ==
  /\ user[t].at = "blinded"
  /\ LET b == user[t].blinding
         i == user[t].index
     IN \/ /\ Goes(t, Ends(b, i, pair[b].match /\ pair[b].counter = user[t].with))
           /\ UNCHANGED faults
        \/ Fails /\ Goes(t, Ends(b, i, TRUE))
  /\ UNCHANGED <<cached, inuse, allocated, pair, released>>

(* rsa_blinding_release.                                                   *)
ReturnByAddress(b, i) ==                    \* fault: marks the last element
  /\ inuse' = [inuse EXCEPT ![Len(cached)] = 0]
  /\ UNCHANGED allocated
Return(b, i) ==
  IF i = Uncached
  THEN allocated' = allocated \ {b} /\ UNCHANGED inuse
  ELSE inuse' = [inuse EXCEPT ![i] = 0] /\ UNCHANGED allocated

BlindingRelease(t) ==
  /\ user[t].at = "ends"
  /\ Return(user[t].blinding, user[t].index)
  /\ Goes(t, Outside)
  /\ UNCHANGED <<cached, pair, faults, released>>

(* RSA_free with the last reference, so no thread is inside.               *)
RsaFree ==
  /\ ~released /\ \A t \in Thread : user[t] = Outside
  /\ released' = TRUE
  /\ allocated' = allocated \ {cached[i] : i \in DOMAIN cached}
  /\ cached' = <<>> /\ inuse' = <<>>
  /\ UNCHANGED <<pair, user, faults>>

BlindingNext ==
  \/ \E t \in Thread : \/ Get(t) \/ SetupBlinding(t) \/ AddToCache(t)
                       \/ BlindingConvert(t) \/ BlindingInvert(t) \/ BlindingRelease(t)
  \/ RsaFree

BlindingSpec == BlindingInit /\ [][BlindingNext]_blindingVars
------------------------------------------------------------------------------
HasBlinding(t) == user[t].at \in {"add", "holds", "blinded", "ends"}

(* A blinding is used by one thread at a time and is not freed under it:   *)
(* "rsa_blinding_get ... allocating one of the cached BN_BLINDING objects" *)
(* (rsa_impl.c:204), also when the cache has grown beyond its limit and an *)
(* element of it was freed as if it were not cached.                       *)
BlindingIsExclusive ==
  \A t \in Thread : HasBlinding(t) =>
    /\ user[t].blinding \in allocated
    /\ \A u \in Thread \ {t} :
         HasBlinding(u) => user[u].blinding # user[t].blinding

(* A private operation that reports success took off the blinding it put   *)
(* on, as long as no allocation has failed (private_transform).            *)
ResultsAreUnblinded ==
  faults = 0 => \A t \in Thread : user[t].at = "ends" => user[t].right

(* No pair is used more often than BN_BLINDING_COUNTER times before a new  *)
(* one is drawn (BN_BLINDING_update), as long as no allocation has failed. *)
PairsAreRedrawn ==
  faults = 0 => \A b \in allocated : pair[b].uses <= Counter

(* MAX_BLINDINGS_PER_RSA is decided on in one locked section and acted on  *)
(* in the next: every thread can add one more.  Within the limit, what is  *)
(* cached is alive and cached once, and nothing is lost: a blinding that   *)
(* no thread holds is in the cache.                                        *)
CacheIsSound ==
  /\ Len(cached) < MaxBlindings + Cardinality(Thread)
  /\ Len(cached) <= MaxBlindings =>
       /\ \A i, j \in DOMAIN cached :
            cached[i] \in allocated /\ (cached[i] = cached[j] => i = j)
       /\ \A b \in allocated :
            \/ \E i \in DOMAIN cached : cached[i] = b
            \/ \E t \in Thread : HasBlinding(t) /\ user[t].blinding = b
       /\ \A i \in DOMAIN cached : inuse[i] = 1 =>
            \E t \in Thread : HasBlinding(t) /\ user[t].at # "add" /\ user[t].index = i

(* The cache of blindings does its work: what is put on is taken off, no   *)
(* pair is worn out, and none is lost (rsa_impl.c:204).                    *)
BlindingsAreKept == ResultsAreUnblinded /\ PairsAreRedrawn /\ CacheIsSound
=============================================================================

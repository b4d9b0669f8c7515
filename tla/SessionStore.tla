---------------------------- MODULE SessionStore ----------------------------
(***************************************************************************)
(* What the session cache of an SSL_CTX promises: a bounded store of       *)
(* sessions with distinct IDs, from which the oldest goes first, and in    *)
(* which a lookup finds exactly the session that is stored under the ID.   *)
(* Threads, locks, reference counts and pointers are in SessionCache.      *)
(***************************************************************************)
EXTENDS Naturals, Sequences, SequencesExt

CONSTANTS
  Session, Id, Thread,
  Size,       \* the most sessions the store keeps
  Null

VARIABLES
  order,      \* the stored sessions, the most recent first
  id,         \* id[s]: the ID of session s
  reply       \* reply[t]: the ID thread t asked for and what it was given

vars == <<order, id, reply>>

Stored == ToSet(order)

Init == order = <<>> /\ id \in [Session -> Id] /\ reply = [t \in Thread |-> Null]

\* The ID of a session does not change while it is stored.
KeepsIds == \A s \in ToSet(order') : id'[s] = id[s]

(* A session replaces the one with the same ID.                            *)
Insert(s) ==
  /\ s \notin Stored /\ Len(order) <= Size
  /\ \/ /\ \A e \in Stored : id[e] # id[s]
        /\ order' = <<s>> \o order
     \/ \E i \in 1..Len(order) : id[order[i]] = id[s] /\ order' = <<s>> \o RemoveAt(order, i)

Evict == Len(order) > Size /\ order' = RemoveAt(order, Len(order))

(* A store that is too large sheds its oldest session before anything else *)
(* goes.                                                                   *)
Discard == Len(order) <= Size /\ \E i \in 1..Len(order) : order' = RemoveAt(order, i)

Lookup(t) ==
  \E s \in Stored :
    /\ reply[t] = Null
    /\ reply' = [reply EXCEPT ![t] = <<id[s], s>>]
    /\ UNCHANGED <<order, id>>

\* What is done with earlier replies does not concern the store.
Forgets == \A t \in Thread : reply'[t] \in {reply[t], Null}

Next ==
  \/ /\ Forgets /\ KeepsIds
     /\ \/ \E s \in Session : Insert(s)
        \/ Evict
        \/ Discard
        \/ UNCHANGED order
  \/ \E t \in Thread : Lookup(t)

Spec == Init /\ [][Next]_vars
=============================================================================

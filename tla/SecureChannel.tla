---------------------------- MODULE SecureChannel ----------------------------
(***************************************************************************)
(* What the handshake promises the two applications.  The ends complete    *)
(* the same sequence of handshakes and agree on what each one negotiated;  *)
(* neither completes a handshake before the other has completed the one    *)
(* before it.  Data is delivered in order, unchanged and once, and only to *)
(* a reader that has completed the handshake whose keys protect it.  A     *)
(* client that cuts through may write before its handshake is complete.    *)
(* Nothing is said of messages: module Handshake has those.                *)
(***************************************************************************)
EXTENDS Naturals, Sequences, SequencesExt

CONSTANT NoKeys     \* the absence of keys, before the first handshake

Side == {"client", "server"}
Peer(x) == IF x = "client" THEN "server" ELSE "client"

VARIABLES
  log,    \* log[x]: what end x believes of each handshake it has completed
  sent,   \* sent[x]: the keys under which end x wrote each of its records
  got     \* got[x]: the records end x has delivered, with the reader's keys

vars == <<log, sent, got>>

\* The keys end x is entitled to use, and those of all handshakes so far.
Keys(x) == IF log[x] = <<>> THEN NoKeys ELSE Last(log[x]).keys
Used(x) == {NoKeys} \cup {log[x][i].keys : i \in DOMAIN log[x]}

Init ==
  /\ log = [x \in Side |-> <<>>]
  /\ sent = [x \in Side |-> <<>>]
  /\ got = [x \in Side |-> <<>>]

(* The first end to complete a handshake: its keys are new.                *)
Agree(x) ==
  /\ log[x] = log[Peer(x)]
  /\ Len(log'[x]) = Len(log[x]) + 1
  /\ LET w == Last(log'[x]) IN
       /\ w.keys \notin Used(x)
       /\ log' = [log EXCEPT ![x] = Append(@, w)]
  /\ UNCHANGED <<sent, got>>

(* The other end: it has the same view of that handshake.                  *)
Follow(x) ==
  /\ Len(log[x]) < Len(log[Peer(x)])
  /\ log' = [log EXCEPT ![x] = Append(@, log[Peer(x)][Len(@) + 1])]
  /\ UNCHANGED <<sent, got>>

Write(x) ==
  /\ log[x] # <<>>
  /\ sent' = [sent EXCEPT ![x] = Append(@, Keys(x))]
  /\ UNCHANGED <<log, got>>

(* A client that cuts through uses keys of no handshake it has completed.  *)
WriteEarly ==
  /\ Len(sent'["client"]) = Len(sent["client"]) + 1
  /\ LET k == Last(sent'["client"]) IN
       /\ k \notin Used("client")
       /\ sent' = [sent EXCEPT !["client"] = Append(@, k)]
  /\ UNCHANGED <<log, got>>

(* The next record of the peer, if it is under the keys of this end.       *)
Read(x) ==
  /\ Len(got[x]) < Len(sent[Peer(x)]) /\ log[x] # <<>>
  /\ sent[Peer(x)][Len(got[x]) + 1] = Keys(x)
  /\ got' = [got EXCEPT ![x] = Append(@, <<Len(@) + 1, Keys(x)>>)]
  /\ UNCHANGED <<log, sent>>

Next == WriteEarly \/ \E x \in Side : Agree(x) \/ Follow(x) \/ Write(x) \/ Read(x)

Spec == Init /\ [][Next]_vars
=============================================================================

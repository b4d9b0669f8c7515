------------------------------ MODULE BytePipes ------------------------------
(***************************************************************************)
(* What a BIO pair promises its two users (include/openssl/bio.h, "BIO     *)
(* Pairs"): two independent reliable byte pipes.  What is written at one   *)
(* end comes out of the other, in order, unchanged and once; a short read  *)
(* or write is never empty; end of file is reported to a reader of an      *)
(* intact pair only when the writer has shut down and nothing is left.     *)
(* Nothing is said of how the bytes are stored: module BioPair does that.  *)
(***************************************************************************)
EXTENDS Naturals, Sequences

CONSTANTS
  Byte,     \* the values a byte can have
  MaxIo     \* the most bytes one call can carry (an int in the code)

Chunk == UNION {[1..n -> Byte] : n \in 0..MaxIo}   \* what a call can carry

End == {1, 2}
Peer(e) == 3 - e

VARIABLES
  pipe,     \* pipe[e]: the bytes written at end e and not yet read by its peer
  shut,     \* shut[e]: end e has been shut down for writing
  linked,   \* the pair is intact: neither end has been freed
  out       \* what the last call took from or gave to its caller

vars == <<pipe, shut, linked, out>>

Result(r) == [kind |-> r, data |-> <<>>]
Took(d) == [kind |-> "took", data |-> d]     \* a write accepted d
Gave(d) == [kind |-> "data", data |-> d]     \* a read returned d

Init ==
  /\ pipe = [e \in End |-> <<>>]
  /\ shut = [e \in End |-> FALSE]
  /\ linked = TRUE
  /\ out = Result("none")

(* A write appends a non-empty prefix of what it is given, or does nothing. *)
WriteSome(e, d) ==
  /\ linked /\ ~shut[e]
  /\ \E n \in 1..Len(d) :
       /\ pipe' = [pipe EXCEPT ![e] = @ \o SubSeq(d, 1, n)]
       /\ out' = Took(SubSeq(d, 1, n))
  /\ UNCHANGED <<shut, linked>>

(* A call that carries nothing, or a write to a broken pair.               *)
Nothing(e) ==
  /\ out' = Result("zero")
  /\ UNCHANGED <<pipe, shut, linked>>

WriteRetry(e) ==
  /\ linked /\ ~shut[e] /\ pipe[e] # <<>>
  /\ out' = Result("retry")
  /\ UNCHANGED <<pipe, shut, linked>>

WriteError(e) ==
  /\ linked /\ shut[e]
  /\ out' = Result("error")
  /\ UNCHANGED <<pipe, shut, linked>>

(* A read removes and returns a non-empty prefix of what is in transit.    *)
ReadSome(e) ==
  /\ linked
  /\ \E n \in 1..Len(pipe[Peer(e)]) :
       /\ out' = Gave(SubSeq(pipe[Peer(e)], 1, n))
       /\ pipe' = [pipe EXCEPT ![Peer(e)] = SubSeq(@, n + 1, Len(@))]
  /\ UNCHANGED <<shut, linked>>

ReadRetry(e) ==
  /\ linked /\ pipe[Peer(e)] = <<>> /\ ~shut[Peer(e)]
  /\ out' = Result("retry")
  /\ UNCHANGED <<pipe, shut, linked>>

ReadEof(e) ==
  /\ linked => pipe[Peer(e)] = <<>> /\ shut[Peer(e)]
  /\ out' = Result("eof")
  /\ UNCHANGED <<pipe, shut, linked>>

Shutdown(e) ==
  /\ shut' = [shut EXCEPT ![e] = TRUE]
  /\ UNCHANGED <<pipe, linked, out>>

(* BIO_reset at the writing end discards what the peer has not read.       *)
Discard(e) ==
  /\ pipe' = [pipe EXCEPT ![e] = <<>>]
  /\ UNCHANGED <<shut, linked, out>>

(* Freeing either end breaks both pipes.                                   *)
Break ==
  /\ linked /\ linked' = FALSE
  /\ pipe' = [e \in End |-> <<>>]
  /\ UNCHANGED <<shut, out>>

Next ==
  \/ Break
  \/ \E e \in End :
       \/ \E d \in Chunk : WriteSome(e, d)
       \/ Nothing(e) \/ WriteRetry(e) \/ WriteError(e)
       \/ ReadSome(e) \/ ReadRetry(e) \/ ReadEof(e)
       \/ Shutdown(e) \/ Discard(e)

Spec == Init /\ [][Next]_vars
=============================================================================

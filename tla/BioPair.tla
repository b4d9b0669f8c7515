------------------------------- MODULE BioPair -------------------------------
(***************************************************************************)
(* The BIO pair of crypto/bio/pair.c: two ends, each with a ring buffer    *)
(* for what it writes; an end reads from its peer's ring.  The two ends    *)
(* are driven by two unrelated callers, so their calls interleave freely.  *)
(*                                                                         *)
(* The field b->peer is not kept apart from bio->init: bio_make_pair and   *)
(* bio_destroy_pair set both on both ends.  Creation (bio_new,             *)
(* bio_make_pair) is Init: BIO_new_bio_pair is the only way to a pair, and *)
(* an end whose peer was freed is never paired again.                      *)
(***************************************************************************)
EXTENDS Naturals, Sequences

CONSTANTS
  Byte,     \* the values a byte can have
  MaxIo,    \* the most bytes one call can carry (an int in the code)
  Sizes,    \* buffer sizes a user may ask for (writebuf1/2, BIO_C_SET_BUFF_SIZE)
  Size0     \* Size0[e]: the size end e is created with

ASSUME PairAssumption ==
  /\ MaxIo \in Nat
  /\ Sizes \subseteq Nat \ {0}
  /\ Size0 \in [{1, 2} -> Sizes]

End == {1, 2}
Peer(e) == 3 - e
Chunk == UNION {[1..n -> Byte] : n \in 0..MaxIo}

VARIABLES
  init,     \* init[e]: end e has a peer
  freed,    \* freed[e]: bio_free ran on end e
  closed,   \* closed[e]: end e was shut down for writing
  size,     \* size[e]: elements of e's ring
  buf,      \* buf[e]: e's ring, a function of 0..size[e]-1 (<<>> for NULL)
  len,      \* len[e]: bytes in it
  offset,   \* offset[e]: where the oldest of them is
  request,  \* request[e]: bytes the peer asked for in vain
  out       \* what the last read or write returned to its caller

vars == <<init, freed, closed, size, buf, len, offset, request, out>>
ring == <<size, buf, len, offset>>

Result(r) == [kind |-> r, data |-> <<>>]
Took(d) == [kind |-> "took", data |-> d]     \* a write accepted d
Gave(d) == [kind |-> "data", data |-> d]     \* a read returned d

Least(a, b) == IF a <= b THEN a ELSE b

(* "don't ask for more than the peer can deliver in one write"             *)
AskedForAll(n, sz) == n                                     \* fault: uncapped
AskedFor(n, sz) == Least(n, sz)
------------------------------------------------------------------------------
(* The ring arithmetic of the two copy loops ("one or two iterations").    *)

(* b->offset + b->len, wrapped: the first byte we can write to.            *)
WriteOffset(off, n, sz) == IF off + n >= sz THEN off + n - sz ELSE off + n

(* How much of rest bytes at position at fit before the end of the ring.   *)
FirstChunk(at, rest, sz) == IF at + rest <= sz THEN rest ELSE sz - at

(* memcpy into and out of the ring.                                        *)
CopyIn(bf, at, d) ==
  [j \in DOMAIN bf |-> IF j >= at /\ j < at + Len(d) THEN d[j - at + 1] ELSE bf[j]]
CopyOut(bf, at, n) == [i \in 1..n |-> bf[at + i - 1]]

(* The write loop: a chunk up to the end of the ring, the rest behind it.  *)
StoredOnce(bf, off, n, sz, d) ==              \* fault: the loop runs once
  LET at == WriteOffset(off, n, sz)
  IN  CopyIn(bf, at, SubSeq(d, 1, FirstChunk(at, Len(d), sz)))
Stored(bf, off, n, sz, d) ==
  LET at1 == WriteOffset(off, n, sz)
      c   == FirstChunk(at1, Len(d), sz)
      at2 == WriteOffset(off, n + c, sz)
  IN  CopyIn(CopyIn(bf, at1, SubSeq(d, 1, c)), at2, SubSeq(d, c + 1, Len(d)))

(* b->offset after c of n bytes were consumed.                             *)
ConsumedNoReset(off, n, c, sz) ==                 \* fault: stays at the end
  IF n = c THEN 0 ELSE off + c
Consumed(off, n, c, sz) ==
  IF n = c \/ off + c = sz THEN 0 ELSE off + c

(* The read loop: the bytes it copies out and the offset it leaves.        *)
Fetched(bf, off, n, rest, sz) ==
  LET c == FirstChunk(off, rest, sz)
  IN  CopyOut(bf, off, c) \o CopyOut(bf, Consumed(off, n, c, sz), rest - c)
Advanced(off, n, rest, sz) ==
  LET c == FirstChunk(off, rest, sz)
      o == Consumed(off, n, c, sz)
  IN  IF c = rest THEN o ELSE Consumed(o, n - c, rest - c, sz)
------------------------------------------------------------------------------
Init ==
  /\ init = [e \in End |-> TRUE]
  /\ freed = [e \in End |-> FALSE]
  /\ closed = [e \in End |-> FALSE]
  /\ size = Size0
  /\ buf \in [End -> UNION {[0..(n - 1) -> Byte] : n \in Sizes}]
  /\ \A e \in End : DOMAIN buf[e] = 0..(size[e] - 1)     \* malloc: any bytes
  /\ len = [e \in End |-> 0]
  /\ offset = [e \in End |-> 0]
  /\ request = [e \in End |-> 0]
  /\ out = Result("none")

(* bio_write                                                               *)
WriteNothing(e, d) ==
  /\ ~freed[e] /\ (~init[e] \/ d = <<>>)
  /\ out' = Result("zero")
  /\ UNCHANGED <<init, freed, closed, ring, request>>

Write(e, d) ==
  /\ ~freed[e] /\ init[e] /\ d # <<>>
  /\ request' = [request EXCEPT ![e] = 0]
  /\ \/ /\ closed[e]
        /\ out' = Result("error") /\ UNCHANGED ring
     \/ /\ ~closed[e] /\ len[e] = size[e]
        /\ out' = Result("retry") /\ UNCHANGED ring
     \/ /\ ~closed[e] /\ len[e] # size[e]
        /\ LET num == Least(Len(d), size[e] - len[e])
           IN /\ buf' = [buf EXCEPT ![e] =
                   Stored(@, offset[e], len[e], size[e], SubSeq(d, 1, num))]
              /\ len' = [len EXCEPT ![e] = @ + num]
              /\ out' = Took(SubSeq(d, 1, num))
        /\ UNCHANGED <<size, offset>>
  /\ UNCHANGED <<init, freed, closed>>

(* bio_read: size is the caller's buffer; p is the end that wrote.         *)
ReadUnpaired(e) ==
  /\ ~freed[e] /\ ~init[e]
  /\ out' = Result("eof")
  /\ UNCHANGED <<init, freed, closed, ring, request>>

Read(e, n) ==
  LET p == Peer(e) IN
  /\ ~freed[e] /\ init[e]
  /\ \/ /\ n = 0
        /\ out' = Result("zero")
        /\ request' = [request EXCEPT ![p] = 0] /\ UNCHANGED ring
     \/ /\ n # 0 /\ len[p] = 0 /\ closed[p]
        /\ out' = Result("eof")
        /\ request' = [request EXCEPT ![p] = 0] /\ UNCHANGED ring
     \/ /\ n # 0 /\ len[p] = 0 /\ ~closed[p]
        /\ out' = Result("retry")
        /\ request' = [request EXCEPT ![p] = AskedFor(n, size[p])] /\ UNCHANGED ring
     \/ /\ n # 0 /\ len[p] # 0
        /\ LET rest == Least(n, len[p])
           IN /\ out' = Gave(Fetched(buf[p], offset[p], len[p], rest, size[p]))
              /\ offset' = [offset EXCEPT ![p] = Advanced(@, len[p], rest, size[p])]
              /\ len' = [len EXCEPT ![p] = @ - rest]
        /\ request' = [request EXCEPT ![p] = 0]
        /\ UNCHANGED <<size, buf>>
  /\ UNCHANGED <<init, freed, closed>>

(* bio_ctrl: the commands that change state.                               *)
ShutdownPeer(e) ==                               \* fault: the wrong direction
  /\ ~freed[e]
  /\ closed' = [closed EXCEPT ![Peer(e)] = TRUE]
  /\ UNCHANGED <<init, freed, ring, request, out>>
ShutdownWr(e) ==
  /\ ~freed[e]
  /\ closed' = [closed EXCEPT ![e] = TRUE]
  /\ UNCHANGED <<init, freed, ring, request, out>>

ResetReadRequest(e) ==
  /\ ~freed[e]
  /\ request' = [request EXCEPT ![e] = 0]
  /\ UNCHANGED <<init, freed, closed, ring, out>>

Reset(e) ==
  /\ ~freed[e] /\ buf[e] # <<>>
  /\ len' = [len EXCEPT ![e] = 0]
  /\ offset' = [offset EXCEPT ![e] = 0]
  /\ UNCHANGED <<init, freed, closed, size, buf, request, out>>

SetBuffSizeInUse(e, n) ==                       \* fault: not refused in use
  /\ ~freed[e] /\ n # size[e]
  /\ size' = [size EXCEPT ![e] = n]
  /\ buf' = [buf EXCEPT ![e] = <<>>]
  /\ UNCHANGED <<init, freed, closed, len, offset, request, out>>
SetBuffSize(e, n) ==        \* refused (BIO_R_IN_USE) while there is a peer
  /\ ~freed[e] /\ ~init[e] /\ n # size[e]
  /\ size' = [size EXCEPT ![e] = n]
  /\ buf' = [buf EXCEPT ![e] = <<>>]
  /\ UNCHANGED <<init, freed, closed, len, offset, request, out>>

(* bio_free, with bio_destroy_pair.                                        *)
Free(e) ==
  /\ ~freed[e]
  /\ freed' = [freed EXCEPT ![e] = TRUE]
  /\ IF init[e]
     THEN /\ init' = [x \in End |-> FALSE]
          /\ len' = [x \in End |-> 0]
          /\ offset' = [x \in End |-> 0]
     ELSE UNCHANGED <<init, len, offset>>
  /\ buf' = [buf EXCEPT ![e] = <<>>]
  /\ UNCHANGED <<closed, size, request, out>>

(* BIO_ctrl_get_write_guarantee                                            *)
WriteGuarantee(e) ==
  IF ~init[e] \/ closed[e] THEN 0 ELSE size[e] - len[e]

Next ==
  \E e \in End :
    \/ \E d \in Chunk : WriteNothing(e, d) \/ Write(e, d)
    \/ \E n \in 0..MaxIo : Read(e, n)
    \/ \E n \in Sizes : SetBuffSize(e, n)
    \/ ReadUnpaired(e) \/ ShutdownWr(e) \/ ResetReadRequest(e) \/ Reset(e) \/ Free(e)

Spec == Init /\ [][Next]_vars
------------------------------------------------------------------------------
TypeOK ==
  /\ init \in [End -> BOOLEAN] /\ freed \in [End -> BOOLEAN]
  /\ closed \in [End -> BOOLEAN]
  /\ size \in [End -> Sizes]
  /\ DOMAIN buf = End
  /\ \A e \in End : init[e] => buf[e] \in [0..(size[e] - 1) -> Byte]
  /\ len \in [End -> Nat] /\ offset \in [End -> Nat] /\ request \in [End -> Nat]

(* The bytes in transit from end e, oldest first.                          *)
Contents(e) ==
  [i \in 1..len[e] |-> buf[e][WriteOffset(offset[e], i - 1, size[e])]]

Pipes == INSTANCE BytePipes WITH
  pipe <- [e \in End |-> Contents(e)], shut <- closed,
  linked <- init[1]

(* The pair implements two reliable byte pipes: whatever the sizes of the  *)
(* rings, the sizes of the calls and the wrap-arounds, no byte is lost,    *)
(* duplicated or reordered, and end of file is reported only after the     *)
(* last byte (bio_read, bio_write and the controls of pair.c).             *)
ImplementsPipes == Pipes!Spec

(* The invariants the comments of struct bio_bio_st state and the asserts  *)
(* of the copy loops rely on: a recorded read request stands only over an  *)
(* empty ring and never asks for more than one write can deliver.          *)
RequestIsWarranted ==
  \A e \in End : init[e] =>
    /\ request[e] > 0 => len[e] = 0
    /\ request[e] <= size[e] - len[e]

(* The offset is inside the ring, and an empty ring starts at 0 so that    *)
(* the next write is one chunk.                                            *)
RingIsNormal ==
  \A e \in End : init[e] =>
    /\ len[e] <= size[e] /\ offset[e] < size[e]
    /\ len[e] = 0 => offset[e] = 0

(* A write guarantee once given to a caller survives everything the other  *)
(* end can do short of freeing the pair: whoever asked                     *)
(* BIO_ctrl_get_write_guarantee may write that much later.                 *)
GuaranteeHolds ==
  [][\A e \in End :
       \/ WriteGuarantee(e)' >= WriteGuarantee(e)
       \/ \E d \in Chunk : Write(e, d)
       \/ ShutdownWr(e) \/ Free(1) \/ Free(2)]_vars
=============================================================================

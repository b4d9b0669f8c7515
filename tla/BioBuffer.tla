------------------------------ MODULE BioBuffer ------------------------------
(***************************************************************************)
(* The buffering BIO of crypto/bio/buffer.c between a caller and the next  *)
(* BIO of the chain, which takes or gives what it likes of what it is      *)
(* offered, or fails and is tried again.                                   *)
(*                                                                         *)
(* A byte is its position in the stream, so that order, loss and           *)
(* repetition show.  Of the input buffer only what is left in it matters,  *)
(* of the output buffer also how much room the consumed part takes.        *)
(***************************************************************************)
EXTENDS Naturals, Sequences

CONSTANTS
  DefaultSize,   \* DEFAULT_BUFFER_SIZE
  OtherSizes,    \* sizes that BIO_set_read/write_buffer_size are called with
  MaxCall,       \* the most bytes of one call
  MaxStream,     \* a bound on the bytes of each stream
  LineEnds       \* the positions of the newlines in the input

ASSUME BufferAssumption ==
  /\ DefaultSize \in Nat \ {0} /\ OtherSizes \subseteq Nat \ {0}
  /\ MaxCall \in Nat /\ MaxStream \in Nat /\ LineEnds \subseteq Nat

VARIABLES
  obuf, obufOff, obufSize,  \* what is left to write, the room consumed before it, the size
  ibuf, ibufSize,           \* what is left to read, the size
  writing,                  \* the call of buffer_write or BIO_flush that is under way
  reading,                  \* the call of buffer_read or buffer_gets that is under way
  accepted, sent,           \* bytes the caller was told were taken; bytes the next BIO took
  received, delivered       \* bytes the next BIO gave; bytes the caller was given

outVars == <<obuf, obufOff, obufSize, writing, accepted, sent>>
inVars == <<ibuf, ibufSize, reading, received, delivered>>
bufferVars == <<outVars, inVars>>

NoCall == [at |-> "none"]
Positions(from, n) == [i \in 1..n |-> from + i]
Upto(s, n) == SubSeq(s, 1, n)
From(s, n) == SubSeq(s, n + 1, Len(s))
Smaller(a, b) == IF a <= b THEN a ELSE b

BufferInit ==
  /\ obuf = <<>> /\ obufOff = 0 /\ obufSize = DefaultSize
  /\ ibuf = <<>> /\ ibufSize = DefaultSize
  /\ writing = NoCall /\ reading = NoCall
  /\ accepted = 0 /\ sent = <<>> /\ received = 0 /\ delivered = <<>>
------------------------------------------------------------------------------
(* buffer_write.                                                           *)
Room == obufSize - (obufOff + Len(obuf))

ReturnWrite(num) == writing' = NoCall /\ accepted' = accepted + num

(* The head of the loop: what fits is added; a call that does not fit      *)
(* fills the buffer and flushes it, one that finds it empty writes past    *)
(* it.                                                                     *)
Enter(rest, num) ==
  /\ UNCHANGED <<obufSize, sent>>
  /\ IF Room >= Len(rest)
     THEN obuf' = obuf \o rest /\ ReturnWrite(num + Len(rest)) /\ UNCHANGED obufOff
     ELSE /\ UNCHANGED accepted
          /\ IF obuf # <<>>
             THEN /\ obuf' = obuf \o Upto(rest, Room) /\ UNCHANGED obufOff
                  /\ writing' = [at |-> "flush", rest |-> From(rest, Room),
                                 num |-> num + Room]
             ELSE /\ obufOff' = 0 /\ UNCHANGED obuf
                  /\ writing' = [at |-> "direct", rest |-> rest, num |-> num]

BufferWrite(n) ==
  /\ writing = NoCall /\ accepted + n <= MaxStream
  /\ Enter(Positions(accepted, n), 0)
  /\ UNCHANGED inVars

(* The next BIO fails: the caller learns how much was taken.               *)
NextFails ==
  /\ writing.at \in {"flush", "direct"}
  /\ ReturnWrite(writing.num)
  /\ UNCHANGED <<obuf, obufOff, obufSize, sent, inVars>>

(* The next BIO takes r bytes of the full buffer.                          *)
FlushOnceOff(r) == 0                        \* fault: the rest is sent again
ConsumedOff(r) == r
NextTakesBuffer(r) ==
  /\ writing.at \in {"flush", "ctrl"} /\ r \in 1..Len(obuf)
  /\ sent' = sent \o Upto(obuf, r)
  /\ obuf' = From(obuf, ConsumedOff(r))
  /\ IF r < Len(obuf)
     THEN obufOff' = obufOff + r /\ UNCHANGED writing
     ELSE /\ obufOff' = 0
          /\ writing' = IF writing.at = "ctrl" THEN NoCall
                        ELSE [writing EXCEPT !.at = "direct"]
  /\ UNCHANGED <<obufSize, accepted, inVars>>

(* Past the empty buffer while more is left than it can hold.              *)
NextTakesDirect(r) ==
  /\ writing.at = "direct" /\ Len(writing.rest) >= obufSize
  /\ r \in 1..Len(writing.rest)
  /\ sent' = sent \o Upto(writing.rest, r)
  /\ IF r = Len(writing.rest)
     THEN ReturnWrite(writing.num + r)
     ELSE /\ writing' = [writing EXCEPT !.rest = From(@, r), !.num = @ + r]
          /\ UNCHANGED accepted
  /\ UNCHANGED <<obuf, obufOff, obufSize, inVars>>

RestFits ==
  /\ writing.at = "direct" /\ Len(writing.rest) < obufSize
  /\ Enter(writing.rest, writing.num)
  /\ UNCHANGED inVars

(* BIO_CTRL_FLUSH.                                                         *)
BufferFlush ==
  /\ writing = NoCall
  /\ IF obuf = <<>>
     THEN obufOff' = 0 /\ UNCHANGED writing
     ELSE writing' = [at |-> "ctrl"] /\ UNCHANGED obufOff
  /\ UNCHANGED <<obuf, obufSize, accepted, sent, inVars>>
FlushFails ==
  /\ writing.at = "ctrl" /\ writing' = NoCall
  /\ UNCHANGED <<obuf, obufOff, obufSize, accepted, sent, inVars>>
------------------------------------------------------------------------------
(* buffer_read and buffer_gets.  A call wants so many bytes, or those up   *)
(* to the first newline.                                                   *)
Wanted(want, line) ==
  LET n == Smaller(want, Len(ibuf))
      ends == {i \in 1..n : ibuf[i] \in LineEnds}
  IN  IF line /\ ends # {} THEN CHOOSE i \in ends : \A j \in ends : i <= j ELSE n
Satisfied(want, line, n) ==
  n = want \/ (line /\ n > 0 /\ ibuf[n] \in LineEnds)

(* A read of more than the buffer holds goes straight to the caller.       *)
Source(want, line) == IF want > ibufSize /\ ~line THEN "direct" ELSE "fill"

LeftAgain(n) == ibuf                        \* fault: ibuf_off stays
Left(n) == From(ibuf, n)

Consume(want, line) ==
  LET n == Wanted(want, line)
  IN  /\ delivered' = delivered \o Upto(ibuf, n)
      /\ ibuf' = Left(n)
      /\ reading' = IF Satisfied(want, line, n) THEN NoCall
                    ELSE [at |-> Source(want - n, line), want |-> want - n, line |-> line]
      /\ UNCHANGED <<ibufSize, received, outVars>>

BufferRead(n) == reading = NoCall /\ Consume(n, FALSE)
BufferGets(n) == reading = NoCall /\ n > 1 /\ Consume(n - 1, TRUE)
TakeMore == reading.at = "filled" /\ Consume(reading.want, reading.line)

NextFills(r) ==
  /\ reading.at = "fill" /\ r \in 1..ibufSize /\ received + r <= MaxStream
  /\ received' = received + r
  /\ ibuf' = Positions(received, r)
  /\ reading' = [reading EXCEPT !.at = "filled"]
  /\ UNCHANGED <<ibufSize, delivered, outVars>>

NextGives(r) ==
  /\ reading.at = "direct" /\ r \in 1..reading.want /\ received + r <= MaxStream
  /\ received' = received + r
  /\ delivered' = delivered \o Positions(received, r)
  /\ reading' = IF r = reading.want THEN NoCall ELSE [reading EXCEPT !.want = @ - r]
  /\ UNCHANGED <<ibuf, ibufSize, outVars>>

NextGivesNothing ==
  /\ reading.at \in {"fill", "direct"} /\ reading' = NoCall
  /\ UNCHANGED <<ibuf, ibufSize, received, delivered, outVars>>
------------------------------------------------------------------------------
(* BIO_C_SET_BUFF_SIZE: only a size above the default is taken, and both   *)
(* buffers are emptied.  Like BIO_reset, it comes between calls and gives  *)
(* up what the buffers held; the streams begin anew.                       *)
NewSize(size, n) == IF n > DefaultSize THEN n ELSE size
SetBufferSize(n, which) ==
  /\ ibufSize' = IF which = "read" THEN NewSize(ibufSize, n) ELSE ibufSize
  /\ obufSize' = IF which = "write" THEN NewSize(obufSize, n) ELSE obufSize
Clear ==
  /\ writing = NoCall /\ reading = NoCall
  /\ obuf' = <<>> /\ obufOff' = 0 /\ ibuf' = <<>>
  /\ accepted' = 0 /\ sent' = <<>> /\ received' = 0 /\ delivered' = <<>>
  /\ \/ \E n \in OtherSizes, which \in {"read", "write"} : SetBufferSize(n, which)
     \/ UNCHANGED <<ibufSize, obufSize>>
  /\ UNCHANGED <<writing, reading>>

BufferNext ==
  \/ \E n \in 1..MaxCall : BufferWrite(n) \/ BufferRead(n) \/ BufferGets(n)
  \/ \E r \in 1..MaxStream : NextTakesBuffer(r) \/ NextTakesDirect(r)
                        \/ NextFills(r) \/ NextGives(r)
  \/ NextFails \/ RestFits \/ BufferFlush \/ FlushFails
  \/ TakeMore \/ NextGivesNothing \/ Clear

BufferSpec == BufferInit /\ [][BufferNext]_bufferVars
------------------------------------------------------------------------------
(* Between calls, what was sent and what is still in the buffer is what    *)
(* the caller was told was taken, in order, whatever the next BIO took of  *)
(* each write and wherever a call was cut short (buffer_write).            *)
OutputIsInOrder ==
  /\ obufOff + Len(obuf) <= obufSize
  /\ writing = NoCall => sent \o obuf = Positions(0, accepted)

(* What was delivered and what is still in the buffer is what the next BIO *)
(* gave, in order, whatever mixture of buffered, direct and line reads     *)
(* (buffer_read, buffer_gets).                                             *)
InputIsInOrder ==
  /\ Len(ibuf) <= ibufSize
  /\ delivered \o ibuf = Positions(0, received)

(* Neither stream loses, repeats or moves a byte in its buffer.            *)
StreamsAreInOrder == OutputIsInOrder /\ InputIsInOrder
=============================================================================

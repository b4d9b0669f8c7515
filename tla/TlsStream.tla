------------------------------ MODULE TlsStream ------------------------------
(***************************************************************************)
(* One direction of an established TLS connection: SSL_write, SSL_shutdown *)
(* and alerts of one end, SSL_read and SSL_peek of the other, over a       *)
(* transport that takes and gives any number of bytes or none (s3_pkt.c).  *)
(*                                                                         *)
(* A byte of application data is its position in the stream.  A record is  *)
(* a header of two cells, its type and its length, and a cell for each     *)
(* byte; protection keeps a record as it is, padding and MACs are left     *)
(* out.  A function returns where the transport blocks, and everything it  *)
(* keeps for the next call is state here.                                  *)
(***************************************************************************)
EXTENDS Naturals, Sequences

CONSTANTS
  MaxFragment,   \* s->max_send_fragment
  MaxWrite,      \* the most bytes of one SSL_write or SSL_read
  MaxTold,       \* a bound on the stream
  MaxAlerts,     \* a bound on alerts besides close_notify
  WireCap,       \* the cells the transport holds
  ReadBuffer,    \* s->s3->rbuf.len
  StreamOptions  \* [splits, partial, moving, ahead]: flags of the two ends

ASSUME StreamAssumption ==
  /\ {MaxWrite, MaxTold, WireCap} \subseteq Nat \ {0}
  /\ MaxFragment \in Nat \ {0, 1}     \* SSL_ctrl takes none below 512
  /\ MaxAlerts \in Nat /\ ReadBuffer \in Nat /\ ReadBuffer >= MaxFragment + 2
  /\ StreamOptions \subseteq [splits : BOOLEAN, partial : BOOLEAN,
                              moving : BOOLEAN, ahead : BOOLEAN]

VARIABLES
  opts,    \* the options in use
  told,    \* bytes SSL_write has reported
  wr,       \* the writer: wnum, wbuf, wpend_*, record_split_done, alert_dispatch, shutdown
  wcall,   \* the SSL_write or SSL_shutdown under way
  wire,    \* cells in the transport
  rd,       \* the reader: packet, rbuf, rstate, rrec, alert_fragment, shutdown
  rcall,   \* the SSL_read or SSL_peek under way
  got      \* bytes SSL_read has returned

writerVars == <<told, wr, wcall>>
readerVars == <<rd, rcall, got>>
streamVars == <<opts, writerVars, wire, readerVars>>

Header(type, n) == <<[cell |-> "type", of |-> type], [cell |-> "length", of |-> n]>>
DataCells(from, n) == [i \in 1..n |-> [cell |-> "data", of |-> from + i]]
DataRecord(from, n) == Header("data", n) \o DataCells(from, n)
AlertRecord(desc) ==
  Header("alert", 2) \o <<[cell |-> "alert", of |-> "level"], [cell |-> "alert", of |-> desc]>>

NotCalled == [at |-> "none"]
NothingPending == [type |-> "none", tot |-> 0]
LesserOf(a, b) == IF a <= b THEN a ELSE b
Dropping(s, n) == SubSeq(s, n + 1, Len(s))

StreamInit ==
  /\ opts \in StreamOptions
  /\ told = 0 /\ wire = <<>> /\ got = <<>>
  /\ wr = [wnum |-> 0, left |-> <<>>, pend |-> NothingPending, split |-> FALSE,
          alert |-> "none", dispatch |-> FALSE, sent |-> FALSE,
          failed |-> FALSE, alerts |-> 0]
  /\ wcall = NotCalled
  /\ rd = [packet |-> <<>>, left |-> <<>>, body |-> FALSE, type |-> "none",
          length |-> 0, data |-> <<>>, fragment |-> <<>>, received |-> FALSE,
          failed |-> FALSE]
  /\ rcall = NotCalled
------------------------------------------------------------------------------
(* The writer.  wcall.tot is how much of this call went out, wcall.moved   *)
(* whether the caller's buffer is another one than last time.  A caller    *)
(* that asks for less than is already out (SSL_R_BAD_LENGTH) gives up:     *)
(* wnum is lost then.                                                      *)
SSLWrite(n, moved) ==
  /\ wcall = NotCalled /\ ~wr.sent /\ ~wr.failed /\ told + n <= MaxTold
  /\ wr' = [wr EXCEPT !.wnum = 0, !.failed = n < wr.wnum]
  /\ wcall' = IF n < wr.wnum THEN NotCalled
              ELSE [at |-> "loop", len |-> n, tot |-> wr.wnum, moved |-> moved]
  /\ UNCHANGED <<opts, told, wire, readerVars>>

(* ssl3_write_bytes leaves the loop: with what is written, or to be called *)
(* again.                                                                  *)
LeavesAndForgets(ww) ==                     \* fault: wnum is not saved
  /\ wr' = [ww EXCEPT !.split = FALSE]
  /\ wcall' = NotCalled
LeavesLoop(ww) ==
  /\ wr' = [ww EXCEPT !.wnum = wcall.tot, !.split = FALSE]
  /\ wcall' = NotCalled

(* ssl3_write_pending: a call that goes on with a record must be the one   *)
(* that began it.                                                          *)
IsBadRetry(type, len, moved) ==
  \/ wr.pend.tot > len \/ wr.pend.type # type
  \/ moved /\ ~opts.moving

(* A record is put into wbuf, in front of it one with the first byte where *)
(* the IV of the next record would be known.                               *)
Splits(n) == n > 1 /\ opts.splits /\ ~wr.split
RecordsWithoutFirst(from, n, split) ==      \* fault: the first byte is sent twice
  IF split THEN DataRecord(from, 1) \o DataRecord(from, n) ELSE DataRecord(from, n)
RecordsOf(from, n, split) ==
  IF split THEN DataRecord(from, 1) \o DataRecord(from + 1, n - 1)
  ELSE DataRecord(from, n)

(* do_ssl3_write, as called by the loop of ssl3_write_bytes.               *)
WriteRecord ==
  /\ wcall.at = "loop"
  /\ LET n == wcall.len - wcall.tot
         nw == LesserOf(n, MaxFragment)
         ww == [wr EXCEPT !.split = @ \/ Splits(n)]
     IN IF wr.left # <<>>
        THEN IF IsBadRetry("data", nw, wcall.moved)
             THEN LeavesLoop(ww)                     \* SSL_R_BAD_WRITE_RETRY
             ELSE wr' = ww /\ wcall' = [wcall EXCEPT !.at = "pending"]
        ELSE IF wr.dispatch
        THEN /\ wr' = [ww EXCEPT !.dispatch = FALSE, !.left = AlertRecord(wr.alert),
                                !.pend = [type |-> "alert", tot |-> 2]]
             /\ wcall' = [wcall EXCEPT !.at = "alert first"]
        ELSE IF nw = 0 THEN LeavesLoop(ww)
        ELSE /\ wr' = [ww EXCEPT !.left = RecordsOf(told + wcall.tot, nw, Splits(n)),
                                !.pend = [type |-> "data", tot |-> nw]]
             /\ wcall' = [wcall EXCEPT !.at = "pending"]
  /\ UNCHANGED <<opts, told, wire, readerVars>>

(* The loop of ssl3_write_pending: the transport takes k cells.            *)
AllTaken(k) == k = Len(wr.left)
TakesCells(k) ==
  /\ wcall.at \in {"pending", "alert first", "alert"}
  /\ k \in 1..Len(wr.left) /\ Len(wire) + k <= WireCap
  /\ wire' = wire \o SubSeq(wr.left, 1, k)
  /\ UNCHANGED <<opts, readerVars>>

TakesSome(k) ==
  /\ TakesCells(k) /\ ~AllTaken(k)
  /\ wr' = [wr EXCEPT !.left = Dropping(@, k)]
  /\ UNCHANGED <<told, wcall>>

(* ... all of a data record: ssl3_write_bytes is done, or goes on.         *)
EndsCall(ret) == ret = wcall.len - wcall.tot \/ opts.partial
ToldAll(ret) == wcall.len                   \* fault: a partial write is taken for all
ToldOf(ret) == wcall.tot + ret
TakesRecord(k) ==
  /\ wcall.at = "pending" /\ TakesCells(k) /\ AllTaken(k)
  /\ LET ret == wr.pend.tot IN
     IF EndsCall(ret)
     THEN /\ told' = told + ToldOf(ret)
          /\ wr' = [wr EXCEPT !.left = <<>>, !.split = FALSE]
          /\ wcall' = NotCalled
     ELSE /\ wr' = [wr EXCEPT !.left = <<>>]
          /\ wcall' = [wcall EXCEPT !.at = "loop", !.tot = @ + ret]
          /\ UNCHANGED told

(* ... all of an alert record: ssl3_dispatch_alert returns.                *)
TakesAlert(k) ==
  /\ wcall.at \in {"alert first", "alert"} /\ TakesCells(k) /\ AllTaken(k)
  /\ wr' = [wr EXCEPT !.left = <<>>]
  /\ wcall' = IF wcall.at = "alert" THEN NotCalled ELSE [wcall EXCEPT !.at = "loop"]
  /\ UNCHANGED told

(* The transport takes nothing.                                            *)
TransportFull ==
  /\ CASE wcall.at = "pending" -> LeavesLoop(wr)
       [] wcall.at = "alert first" -> LeavesLoop([wr EXCEPT !.dispatch = TRUE])
       [] wcall.at = "alert" -> wr' = [wr EXCEPT !.dispatch = TRUE] /\ wcall' = NotCalled
       [] OTHER -> FALSE
  /\ UNCHANGED <<opts, told, wire, readerVars>>

(* ssl3_send_alert and ssl3_dispatch_alert: while a record is being        *)
(* written the alert waits.                                                *)
DispatchesNow(ww) ==                        \* fault: it does not wait
  /\ wr' = [ww EXCEPT !.dispatch = FALSE, !.left = AlertRecord(ww.alert),
                     !.pend = [type |-> "alert", tot |-> 2]]
  /\ wcall' = [at |-> "alert"]
DispatchAlert(ww) ==
  IF ww.left = <<>>
  THEN /\ wr' = [ww EXCEPT !.dispatch = FALSE, !.left = AlertRecord(ww.alert),
                          !.pend = [type |-> "alert", tot |-> 2]]
       /\ wcall' = [at |-> "alert"]
  ELSE /\ wr' = [ww EXCEPT !.dispatch = TRUE]
       /\ UNCHANGED wcall

SendAlert(ww, desc) == DispatchAlert([ww EXCEPT !.alert = desc, !.dispatch = TRUE])

(* The end refuses a renegotiation that the other end asks for (in         *)
(* ssl3_read_bytes, while it reads).                                       *)
RefuseRenegotiation ==
  /\ wcall = NotCalled /\ wr.alerts < MaxAlerts
  /\ SendAlert([wr EXCEPT !.alerts = @ + 1], "no_renegotiation")
  /\ UNCHANGED <<opts, told, wire, readerVars>>

(* ssl3_shutdown; a second call dispatches an alert that still waits,      *)
(* which goes on with the record in wbuf only if that is the alert.        *)
SSLShutdown ==
  /\ wcall = NotCalled
  /\ IF ~wr.sent THEN SendAlert([wr EXCEPT !.sent = TRUE], "close_notify")
     ELSE /\ wr.dispatch
          /\ IF wr.left = <<>> THEN DispatchAlert(wr)
             ELSE /\ wr.pend.type = "alert"           \* else SSL_R_BAD_WRITE_RETRY
                  /\ wr' = [wr EXCEPT !.dispatch = FALSE]
                  /\ wcall' = [at |-> "alert"]
  /\ UNCHANGED <<opts, told, wire, readerVars>>
------------------------------------------------------------------------------
(* The reader.                                                             *)
SSLRead(n, peek) ==
  /\ rcall = NotCalled /\ ~rd.received /\ ~rd.failed
  /\ rcall' = [at |-> "start", len |-> n, peek |-> peek]
  /\ UNCHANGED <<opts, writerVars, wire, rd, got>>

(* ssl3_read_n: n bytes from what was read ahead, or from the transport.   *)
Packet(extend) == IF extend THEN rd.packet ELSE <<>>
TakesFromBuffer(n, extend) ==
  [rd EXCEPT !.packet = Packet(extend) \o SubSeq(rd.left, 1, n), !.left = Dropping(@, n)]

MostToRead(n, extend) ==
  IF opts.ahead THEN ReadBuffer - Len(Packet(extend)) ELSE n

Needs == IF rd.body THEN rd.length ELSE 2
NeedsRecord == rd.body \/ rd.data = <<>>
ReadN(k) ==
  /\ rcall.at = "start" /\ NeedsRecord /\ Len(rd.left) < Needs
  /\ k \in 1..LesserOf(Len(wire), MostToRead(Needs, rd.body) - Len(rd.left))
  /\ rd' = [rd EXCEPT !.left = @ \o SubSeq(wire, 1, k)]
  /\ wire' = Dropping(wire, k)
  /\ UNCHANGED <<opts, writerVars, rcall, got>>

TransportEmpty ==
  /\ rcall.at = "start" /\ NeedsRecord /\ Len(rd.left) < Needs
  /\ rcall' = NotCalled
  /\ UNCHANGED <<opts, writerVars, wire, rd, got>>

(* ssl3_get_record, in two steps that a call may be interrupted between.   *)
GetHeader ==
  /\ rcall.at = "start" /\ rd.data = <<>> /\ ~rd.body /\ Len(rd.left) >= 2
  /\ LET rr == TakesFromBuffer(2, FALSE)
     IN rd' = [rr EXCEPT !.body = TRUE, !.type = rr.packet[1].of, !.length = rr.packet[2].of]
  /\ UNCHANGED <<opts, writerVars, wire, rcall, got>>

GetBody ==
  /\ rcall.at = "start" /\ rd.body /\ Len(rd.left) >= rd.length
  /\ LET rr == TakesFromBuffer(rd.length, TRUE)
     IN rd' = [rr EXCEPT !.body = FALSE, !.packet = <<>>, !.data = Dropping(rr.packet, 2)]
  /\ UNCHANGED <<opts, writerVars, wire, rcall, got>>

(* ssl3_read_bytes with a record of the type asked for.                    *)
LeftAfterPeek(n) == Dropping(rd.data, n)     \* fault: peeking consumes
LeftAfter(n) == IF rcall.peek THEN rd.data ELSE Dropping(rd.data, n)
GiveData ==
  /\ rcall.at = "start" /\ ~NeedsRecord /\ rd.type = "data"
  /\ LET n == LesserOf(rcall.len, Len(rd.data))
     IN /\ rd' = [rd EXCEPT !.data = LeftAfter(n)]
        /\ got' = IF rcall.peek THEN got ELSE got \o [i \in 1..n |-> rd.data[i].of]
  /\ rcall' = NotCalled
  /\ UNCHANGED <<opts, writerVars, wire>>

(* ... and with an alert: it is collected in alert_fragment.               *)
TakeAlert ==
  /\ rcall.at = "start" /\ ~NeedsRecord /\ rd.type = "alert"
  /\ LET n == LesserOf(2 - Len(rd.fragment), Len(rd.data))
         fragment == rd.fragment \o SubSeq(rd.data, 1, n)
         rr == [rd EXCEPT !.data = Dropping(@, n), !.fragment = fragment]
     IN IF Len(fragment) < 2
        THEN rd' = rr /\ UNCHANGED rcall
        ELSE /\ rd' = [rr EXCEPT !.fragment = <<>>,
                        !.received = fragment[2].of = "close_notify",
                        !.failed = fragment[2].of = "no_renegotiation"]
             /\ rcall' = NotCalled
  /\ UNCHANGED <<opts, writerVars, wire, got>>

StreamNext ==
  \/ \E n \in 1..MaxWrite : \/ \E moved \in BOOLEAN : SSLWrite(n, moved)
                            \/ \E peek \in BOOLEAN : SSLRead(n, peek)
  \/ WriteRecord \/ TransportFull \/ RefuseRenegotiation \/ SSLShutdown
  \/ \E k \in 1..WireCap : TakesSome(k) \/ TakesRecord(k) \/ TakesAlert(k) \/ ReadN(k)
  \/ TransportEmpty \/ GetHeader \/ GetBody \/ GiveData \/ TakeAlert

StreamSpec == StreamInit /\ [][StreamNext]_streamVars
------------------------------------------------------------------------------
(* Everything between the two callers, in the order it will be read.       *)
Between ==
  (IF rd.body THEN rd.packet ELSE IF rd.type = "data" THEN rd.data ELSE <<>>)
    \o rd.left \o wire \o wr.left
(* The bytes in cells are those after from up to to, in their order.       *)
IsRun(cells, from, to) ==
  LET D == {i \in DOMAIN cells : cells[i].cell = "data"}
  IN  /\ {cells[i].of : i \in D} = from + 1 .. to
      /\ \A i, j \in D : i < j => cells[i].of < cells[j].of

(* What the caller has been told of, or what it must repeat: the bytes of  *)
(* a call that are out, and those of the record that is being written.     *)
Committed ==
  LET out == IF wcall.at \in {"none", "alert"} THEN wr.wnum ELSE wcall.tot
  IN  told + out + (IF wr.left # <<>> /\ wr.pend.type = "data" THEN wr.pend.tot ELSE 0)

(* The application's bytes arrive once, complete and in order, however the *)
(* transport cuts the records, wherever a call is interrupted and whatever *)
(* the caller then does (ssl3_write_bytes and wnum, "it must never be      *)
(* possible to end up with (len-tot) as a large number"; ssl3_read_n).     *)
StreamIsIntact ==
  /\ \A i \in DOMAIN got : got[i] = i
  /\ \E last \in Len(got) .. MaxTold :
       /\ IsRun(Between, Len(got), last)
       /\ ~wr.failed => last = Committed

(* Records stay whole: what is between the two ends is a header, as many   *)
(* cells as it says, and the next header; an alert is never put into the   *)
(* middle of a record that is still being written (ssl3_send_alert, "data  *)
(* still being written out?").                                             *)
WireIsRecords ==
  LET cells == (IF rd.body THEN rd.packet ELSE <<>>) \o rd.left \o wire \o wr.left
      starts == {i \in DOMAIN cells : cells[i].cell = "type"}
      next(i) == i + 2 + cells[i + 1].of
  IN  /\ cells # <<>> => cells[1].cell = "type"
      /\ \A i \in starts :
           /\ i < Len(cells) /\ cells[i + 1].cell = "length"
           /\ next(i) = Len(cells) + 1 \/ next(i) \in starts
           /\ \A j \in i + 2 .. next(i) - 1 : cells[j].cell = cells[i].of

(* The reader takes the stream for complete only when it has everything    *)
(* that was written before close_notify (SSL_shutdown).                    *)
EndIsTheEnd ==
  rd.received => wr.sent /\ Len(got) = told

(* The stream a reader sees is the one that was written, in whole records, *)
(* and ends where the writer ended it (s3_pkt.c).                          *)
StreamIsWhole == StreamIsIntact /\ WireIsRecords /\ EndIsTheEnd
=============================================================================

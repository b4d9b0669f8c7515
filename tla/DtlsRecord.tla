----------------------------- MODULE DtlsRecord -----------------------------
(* The DTLS record layer in one direction (ssl/d1_pkt.c, and the part of     *)
(* ssl/d1_both.c that retransmits): a writer numbers records by epoch and    *)
(* sequence, changes epoch with a ChangeCipherSpec and retransmits a flight  *)
(* in the epochs it was first sent in; a reader over a network that loses,   *)
(* duplicates and reorders datagrams drops repeats, holds back what belongs  *)
(* to the next epoch, and passes the rest to a state machine that reads the  *)
(* handshake in order. A datagram is a record, delivered intact.             *)
EXTENDS ReplayWindow, Sequences, FiniteSets

CONSTANTS MaxEpoch,      \* a bound: handshakes on one connection
          MaxSeq,        \* a bound: records of one epoch
          MaxData,       \* a bound: application data records of one epoch
          MaxResends,    \* a bound: retransmissions of a flight
          QueueMax,      \* 100 in dtls1_buffer_record
          Writers,       \* the ends whose records are followed
          ClientVerifies \* the server asked for a client certificate

ASSUME BoundsAreNaturals ==
    {MaxEpoch, MaxSeq, MaxData, MaxResends, QueueMax} \subseteq Nat

ASSUME WritersAreEnds == Writers \subseteq {"client", "server"}

VARIABLES writer,            \* "client" or "server", it never changes
          wEpoch, writeSeq, lastSeq,  \* w_epoch, write_sequence, last_write_sequence
          sent,              \* sent_messages: each message and its saved epoch
          resend,            \* the position of dtls1_retransmit_buffered_messages, or 0
          resends,           \* how often it was called, for the bound
          wNext, wOk,        \* the next handshake message, and SSL_ST_OK
          net,               \* the datagrams written so far, each may arrive any time
          written,           \* history: how many records bore each number
          rEpoch, bitmap,    \* r_epoch, bitmap
          unprocessed, unprocessedEpoch, \* unprocessed_rcds: records, epoch
          processed, appData,\* processed_rcds, buffered_app_data
          rr,                \* rrec, or None when its length is 0
          ccs, ccsOk,        \* change_cipher_spec, change_cipher_spec_ok
          rState, expected,  \* the handshake: its state and the next message
          early,             \* buffered_messages: those that came out of order
          accepted,          \* history: how often each number was accepted
          finished,          \* history: the last epoch whose Finished was read
          delivered          \* history: the records the application read

wVars == <<writer, wEpoch, writeSeq, lastSeq, sent, resend, resends, wNext, wOk, net, written>>
queues == <<unprocessed, unprocessedEpoch, processed, appData>>
hsVars == <<ccs, ccsOk, rState, expected, early, finished>>
rVars == <<rEpoch, bitmap, queues, rr, hsVars, accepted, delivered>>
vars == <<wVars, rVars>>

Epochs == 0 .. MaxEpoch
Seqs == 0 .. MaxSeq
Kinds == {"hello", "exchange", "verify", "ticket", "finished"}
Types == Kinds \cup {"ccs", "data"}
Records == [epoch: Epochs, seq: Seqs, type: Types]
None == [type |-> "none"]
Number(r) == <<r.epoch, r.seq>>

(* The writer's messages of a full handshake. Each stands for the messages   *)
(* of its flight up to it: "hello" for a first flight.                       *)
Flight == IF writer = "server" THEN <<"hello", "ticket", "finished">>
          ELSE IF ClientVerifies THEN <<"hello", "exchange", "verify", "finished">>
          ELSE <<"hello", "exchange", "finished">>

Init ==
    /\ writer \in Writers
    /\ wEpoch = 0 /\ writeSeq = 0 /\ lastSeq = 0
    /\ sent = <<>> /\ resend = 0 /\ resends = 0 /\ wNext = 1 /\ wOk = FALSE
    /\ net = {} /\ written = [n \in Epochs \X Seqs |-> 0]
    /\ rEpoch = 0 /\ bitmap = Fresh
    /\ unprocessed = {} /\ unprocessedEpoch = 0 /\ processed = {} /\ appData = {}
    /\ rr = None /\ ccs = FALSE /\ ccsOk = FALSE /\ rState = "init" /\ expected = 1 /\ early = {}
    /\ accepted = [n \in Epochs \X Seqs |-> 0]
    /\ finished = 0 /\ delivered = {}

-----------------------------------------------------------------------------
(* The writer.                                                               *)

(* do_dtls1_write: the header takes w_epoch and write_sequence.              *)
Write(type, epoch, seq) ==
    /\ net' = net \cup {[epoch |-> epoch, seq |-> seq, type |-> type]}
    /\ written' = [written EXCEPT ![<<epoch, seq>>] = @ + 1]

(* dtls1_stop_timer: the peer's answer was read, so the flight before is     *)
(* done with; it starts the next one.                                        *)
StartsFlight == wNext \in {1, 2}

(* dtls1_buffer_message                                                      *)
Buffered(type) ==
    Append(IF StartsFlight THEN <<>> ELSE sent, [type |-> type, epoch |-> wEpoch])

(* The reader has answered: the whole flight before this one was read.       *)
Answered == wNext = 2 => rState = "init" /\ expected >= 2

CcsIsNext == Flight[wNext] = "finished" /\ ~\E i \in DOMAIN sent : sent[i].type = "ccs"

(* dtls1_do_write after dtls1_buffer_message, for a handshake message        *)
SendMessage ==
    /\ ~wOk /\ resend = 0 /\ wNext <= Len(Flight)
    /\ ~CcsIsNext /\ Answered /\ writeSeq \in Seqs
    /\ Write(Flight[wNext], wEpoch, writeSeq)
    /\ sent' = Buffered(Flight[wNext])
    /\ writeSeq' = writeSeq + 1
    /\ wNext' = wNext + 1
    /\ wOk' = (writer = "server" /\ wNext = Len(Flight))
    /\ UNCHANGED <<writer, wEpoch, lastSeq, resend, resends>>

(* dtls1_send_change_cipher_spec, then dtls1_reset_seq_numbers(WRITE)        *)
SendChangeCipherSpec ==
    /\ ~wOk /\ resend = 0 /\ wNext <= Len(Flight) /\ CcsIsNext
    /\ writeSeq \in Seqs /\ wEpoch + 1 \in Epochs
    /\ Write("ccs", wEpoch, writeSeq)
    /\ sent' = Append(sent, [type |-> "ccs", epoch |-> wEpoch])
    /\ lastSeq' = writeSeq + 1
    /\ writeSeq' = 0
    /\ wEpoch' = wEpoch + 1
    /\ UNCHANGED <<writer, resend, resends, wNext, wOk>>

(* A client ends its handshake, and stops its timer, when it has read the    *)
(* Finished that the server sends after the client's own was read.           *)
ClientDone ==
    /\ writer = "client" /\ ~wOk /\ resend = 0 /\ wNext > Len(Flight)
    /\ rState = "ok" /\ rEpoch = wEpoch
    /\ wOk' = TRUE
    /\ sent' = <<>>
    /\ UNCHANGED <<writer, wEpoch, writeSeq, lastSeq, resend, resends, wNext, net, written>>

(* dtls1_write_app_data_bytes                                                *)
SendData ==
    /\ wOk /\ resend = 0 /\ writeSeq \in Seqs
    /\ Cardinality({r \in net : r.type = "data" /\ r.epoch = wEpoch}) < MaxData
    /\ Write("data", wEpoch, writeSeq)
    /\ writeSeq' = writeSeq + 1
    /\ UNCHANGED <<writer, wEpoch, lastSeq, sent, resend, resends, wNext, wOk>>

(* A client writer renegotiates on its own; a server does when the reader,   *)
(* which is then the client, has sent its ClientHello.                       *)
WriterRenegotiates ==
    /\ wOk /\ resend = 0
    /\ writer = "server" => rState = "init" /\ expected = 1
    /\ wOk' = FALSE
    /\ wNext' = 1
    /\ UNCHANGED <<writer, wEpoch, writeSeq, lastSeq, sent, resend, resends, net, written>>

(* dtls1_retransmit_buffered_messages, on a timeout or a repeated Finished   *)
StartRetransmit ==
    /\ sent # <<>> /\ resend = 0 /\ resends < MaxResends
    /\ resend' = 1
    /\ resends' = resends + 1
    /\ UNCHANGED <<writer, wEpoch, writeSeq, lastSeq, sent, wNext, wOk, net, written>>

(* dtls1_retransmit_message: write_sequence is exchanged for                 *)
(* last_write_sequence when the message belongs to the epoch before.         *)
SavedNumbersOfNow(m) == writeSeq      \* a mistake: they are not exchanged

SavedNumbers(m) == IF m.epoch = wEpoch - 1 THEN lastSeq ELSE writeSeq

NextResendTooFar == IF resend <= Len(sent) THEN resend + 1 ELSE 0  \* a mistake

NextResend == IF resend < Len(sent) THEN resend + 1 ELSE 0

RetransmitMessage ==
    /\ resend # 0
    /\ LET m == sent[resend]
           seq == SavedNumbers(m)
       IN /\ seq \in Seqs
          /\ Write(m.type, m.epoch, seq)
          /\ IF m.epoch = wEpoch - 1
             THEN lastSeq' = seq + 1 /\ UNCHANGED writeSeq
             ELSE writeSeq' = seq + 1 /\ UNCHANGED lastSeq
    /\ resend' = NextResend
    /\ UNCHANGED <<writer, wEpoch, sent, resends, wNext, wOk>>

WriterNext ==
    \/ SendMessage \/ SendChangeCipherSpec \/ ClientDone \/ SendData
    \/ WriterRenegotiates \/ StartRetransmit \/ RetransmitMessage

-----------------------------------------------------------------------------
(* The reader.                                                               *)

Draining == unprocessed # {} /\ unprocessedEpoch = rEpoch
HeldDataAnyTime == rState = "ok" /\ appData # {}       \* a mistake: over what was not read
HeldData == rState = "ok" /\ appData # {} /\ rr = None
EarlyReady == rState = "init" /\ Flight[expected] \in early

(* Between two records. An early handshake message, or data that was held    *)
(* during the handshake, is used before another record is looked for.        *)
Ready == rr = None /\ rState # "failed" /\ ~EarlyReady /\ ~HeldData

(* pqueue_peek and pqueue_pop: the item of the smallest number               *)
First(queue) == {r \in queue : \A other \in queue : r.seq <= other.seq}

(* dtls1_buffer_record: pqueue_insert orders by sequence number, without the *)
(* epoch, and refuses a number it holds.                                     *)
Inserted(queue, r) ==
    IF Cardinality(queue) >= QueueMax \/ \E other \in queue : other.seq = r.seq
    THEN queue
    ELSE queue \cup {r}

(* dtls1_process_record: the record authenticates, and is marked             *)
Process(r) ==
    /\ bitmap' = Mark(bitmap, r.seq)
    /\ accepted' = [accepted EXCEPT ![Number(r)] = @ + 1]

(* One turn of the loop of dtls1_process_buffered_records, at the start of   *)
(* dtls1_get_record. The records were checked against no bitmap but that of  *)
(* the next epoch, which nothing marks.                                      *)
ProcessBuffered ==
    /\ Ready /\ Draining
    /\ \E r \in First(unprocessed) :
          /\ Process(r)
          /\ unprocessed' = unprocessed \ {r}
          /\ processed' = Inserted(processed, r)
    /\ UNCHANGED <<wVars, rEpoch, unprocessedEpoch, appData, rr, hsVars, delivered>>

(* ... and its end: "sync epoch numbers".                                    *)
SyncEpoch ==
    unprocessedEpoch' = IF unprocessed = {} THEN rEpoch + 1 ELSE unprocessedEpoch

GetProcessed ==
    /\ Ready /\ ~Draining /\ processed # {}
    /\ SyncEpoch
    /\ \E r \in First(processed) : rr' = r /\ processed' = processed \ {r}
    /\ UNCHANGED <<wVars, rEpoch, bitmap, unprocessed, appData, hsVars, accepted, delivered>>

(* dtls1_get_bitmap and dtls1_record_replay_check for a record off the wire  *)
IsCurrent(r) == r.epoch = rEpoch /\ IsNew(bitmap, r.seq)
IsNextEpoch(r) == r.epoch = rEpoch + 1 /\ r.type \in Kinds /\ IsNew(Fresh, r.seq)

(* dtls1_get_record. A record that fits neither case is dumped; that has no  *)
(* effect, so it is no action.                                               *)
GetRecord ==
    /\ Ready /\ ~Draining /\ processed = {}
    /\ SyncEpoch
    /\ \E r \in net :
          /\ IsCurrent(r)
          /\ Process(r)
          /\ rr' = r
    /\ UNCHANGED <<wVars, rEpoch, unprocessed, processed, appData, hsVars, delivered>>

BufferNextEpoch ==
    /\ Ready /\ ~Draining /\ processed = {} /\ rState = "init"
    /\ SyncEpoch
    /\ \E r \in net :
          /\ IsNextEpoch(r)
          /\ unprocessed' = Inserted(unprocessed, r)
    /\ UNCHANGED <<wVars, rEpoch, bitmap, processed, appData, rr, hsVars, accepted, delivered>>

(* dtls1_read_bytes, at "start": data held during the handshake comes first  *)
GetHeldData ==
    /\ HeldData
    /\ \E r \in First(appData) : rr' = r /\ appData' = appData \ {r}
    /\ UNCHANGED <<wVars, rEpoch, bitmap, unprocessed, unprocessedEpoch, processed,
                   hsVars, accepted, delivered>>

(* dtls1_read_bytes: not handshake, between ChangeCipherSpec and Finished    *)
AwaitsNothing == FALSE                 \* a mistake: the flag is not looked at
AwaitsFinished == ccs

HoldData ==
    /\ rr # None /\ rState # "failed" /\ AwaitsFinished /\ rr.type \notin Kinds
    /\ appData' = Inserted(appData, rr)
    /\ rr' = None
    /\ UNCHANGED <<wVars, rEpoch, bitmap, unprocessed, unprocessedEpoch, processed,
                   hsVars, accepted, delivered>>

(* Application data; in a renegotiation ssl3_read asks for it again.         *)
ReadData ==
    /\ rState # "failed" /\ ~AwaitsFinished /\ rr.type = "data"
    /\ delivered' = delivered \cup {rr}
    /\ rr' = None
    /\ UNCHANGED <<wVars, rEpoch, bitmap, queues, hsVars, accepted>>

(* ssl3_do_change_cipher_spec needs a master secret, which a server has when *)
(* it has read ClientKeyExchange.                                            *)
HasSecret == writer = "server" \/ expected > 2

ReadChangeCipherSpec ==
    /\ rState # "failed" /\ ~AwaitsFinished /\ rr.type = "ccs"
    /\ rr' = None
    /\ IF ~ccsOk
       THEN UNCHANGED <<rEpoch, bitmap, ccs, ccsOk, rState>>
       ELSE /\ ccsOk' = FALSE
            /\ ccs' = TRUE
            /\ IF HasSecret
               THEN rEpoch' = rEpoch + 1 /\ bitmap' = Fresh /\ UNCHANGED rState
               ELSE rState' = "failed" /\ UNCHANGED <<rEpoch, bitmap>>
    /\ UNCHANGED <<wVars, queues, expected, early, finished, accepted, delivered>>

(* The states in which dtls1_accept and dtls1_connect allow a                *)
(* ChangeCipherSpec: dtls1_accept from SSL3_ST_SR_CERT_VRFY_A on.            *)
AllowsCcs(next) ==
    next <= Len(Flight) /\ Flight[next] \in {"verify", "finished"}

(* The state machine reads the message it expects. A Finished before a       *)
(* ChangeCipherSpec is fatal (ssl3_get_finished).                            *)
Handle(message) ==
    IF message # "finished"
    THEN /\ expected' = expected + 1
         /\ ccsOk' = (ccsOk \/ AllowsCcs(expected + 1))
         /\ rState' = "init"
         /\ UNCHANGED <<ccs, finished>>
    ELSE IF ~ccs
         THEN rState' = "failed" /\ UNCHANGED <<expected, ccs, ccsOk, finished>>
         ELSE /\ rState' = "ok" /\ expected' = 1 /\ ccs' = FALSE /\ finished' = rEpoch
              /\ UNCHANGED ccsOk

(* A handshake record in a handshake, or a first one in SSL_ST_OK, where a   *)
(* repeated Finished only makes the reader retransmit. One that is not the   *)
(* expected one waits in buffered_messages or was read before.               *)
ReadMessage ==
    /\ rState # "failed" /\ rr.type \in Kinds
    /\ rr' = None
    /\ IF rState = "ok" /\ rr.type = "finished"
       THEN UNCHANGED hsVars
       ELSE IF rr.type = Flight[expected]
            THEN Handle(rr.type) /\ UNCHANGED early
            ELSE /\ early' = early \cup {Flight[i] : i \in {j \in expected + 1 .. Len(Flight) : Flight[j] = rr.type}}
                 /\ rState' = "init"
                 /\ UNCHANGED <<ccs, ccsOk, expected, finished>>
    /\ UNCHANGED <<wVars, rEpoch, bitmap, queues, accepted, delivered>>

(* A Finished that came early is that of the handshake before, sent again:   *)
(* either no ChangeCipherSpec was read or its verify_data is wrong.          *)
ReadEarlyMessage ==
    /\ rr = None /\ EarlyReady
    /\ IF Flight[expected] = "finished"
       THEN rState' = "failed" /\ UNCHANGED <<expected, ccs, ccsOk, finished>>
       ELSE Handle(Flight[expected])
    /\ early' = early \ {Flight[expected]}
    /\ UNCHANGED <<wVars, rEpoch, bitmap, queues, rr, accepted, delivered>>

(* A read that would block returns; the next call enters the state again,    *)
(* and so allows a ChangeCipherSpec again, also one that was just read.      *)
Reenter ==
    /\ Ready /\ rState = "init" /\ AllowsCcs(expected) /\ ~ccsOk
    /\ ccsOk' = TRUE
    /\ UNCHANGED <<wVars, rEpoch, bitmap, queues, rr, ccs, rState, expected, early,
                   finished, accepted, delivered>>

(* A reader that is the client starts a renegotiation, by a HelloRequest or  *)
(* when its application, which has read what there is, asks for one.         *)
ReaderRenegotiates ==
    /\ writer = "server" /\ Ready /\ ~Draining /\ processed = {}
    /\ rState = "ok" /\ rEpoch < MaxEpoch
    /\ rState' = "init"
    /\ UNCHANGED <<wVars, rEpoch, bitmap, queues, rr, ccs, ccsOk, expected, early,
                   finished, accepted, delivered>>

ReaderNext ==
    \/ ProcessBuffered \/ GetProcessed \/ GetRecord \/ BufferNextEpoch
    \/ GetHeldData \/ HoldData \/ ReadData \/ ReadChangeCipherSpec
    \/ ReadMessage \/ ReadEarlyMessage \/ Reenter \/ ReaderRenegotiates

Next ==
    \/ WriterNext /\ UNCHANGED rVars
    \/ ReaderNext

Spec == Init /\ [][Next]_vars

-----------------------------------------------------------------------------
(* Properties.                                                               *)

(* Every variable has its type.                                              *)
TypeOK ==
    /\ writer \in {"client", "server"}
    /\ wEpoch \in Epochs /\ writeSeq \in Nat /\ lastSeq \in Nat
    /\ sent \in Seq([type: Kinds \cup {"ccs"}, epoch: Epochs])
    /\ resend \in 0 .. Len(sent) /\ resends \in 0 .. MaxResends
    /\ wNext \in 1 .. Len(Flight) + 1 /\ wOk \in BOOLEAN
    /\ net \subseteq Records
    /\ written \in [Epochs \X Seqs -> Nat]
    /\ rEpoch \in Nat /\ bitmap \in Bitmaps
    /\ unprocessed \subseteq Records /\ unprocessedEpoch \in Nat
    /\ processed \subseteq Records /\ appData \subseteq Records
    /\ rr \in Records \cup {None}
    /\ ccs \in BOOLEAN /\ ccsOk \in BOOLEAN
    /\ rState \in {"init", "ok", "failed"}
    /\ expected \in 1 .. Len(Flight) /\ early \subseteq Kinds
    /\ accepted \in [Epochs \X Seqs -> Nat]
    /\ finished \in Nat /\ delivered \subseteq Records

(* No record is accepted twice, whatever the network repeats and however     *)
(* records wait for their epoch (dtls1_record_replay_check).                 *)
AcceptedOnce == \A n \in Epochs \X Seqs : accepted[n] <= 1

(* No two records bear the same epoch and sequence number, although a        *)
(* retransmission goes back to the numbers of an epoch that was left (under  *)
(* one key a number must not be used twice).                                 *)
NumbersAreUnique == \A n \in Epochs \X Seqs : written[n] <= 1

(* Application data is read only from an epoch whose Finished was verified:  *)
(* what overtakes the Finished waits for it.                                 *)
DataFollowsFinished == \A r \in delivered : r.epoch <= finished

(* Data that was accepted is kept until it is read ("buffer the application  *)
(* data for later processing rather than dropping the connection"), unless   *)
(* the queue is at its limit.                                                *)
Held == {rr} \cup processed \cup appData
DataIsKept ==
    [][\A r \in Held \ Held' :
          r.type = "data" => r \in delivered' \/ Cardinality(appData) >= QueueMax]_vars
=============================================================================

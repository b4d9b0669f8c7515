---------------------------- MODULE DtlsMessages ----------------------------
(* Handshake messages over DTLS in one direction (ssl/d1_both.c, and the     *)
(* timer of ssl/d1_lib.c): a writer cuts the messages of a flight into       *)
(* fragments that fit the MTU and sends them again when its timer expires;   *)
(* a reader over a network that loses, repeats and reorders puts them back   *)
(* together and hands the messages up in their order.                        *)
EXTENDS Integers, Sequences, SequencesExt, FiniteSets

CONSTANTS Lengths,      \* msg_len of each message, in units of the MTU
          Mtu,          \* the room for a message's body in a datagram
          FallbackMtu,  \* BIO_CTRL_DGRAM_GET_FALLBACK_MTU
          AlertLimit,   \* DTLS1_TMO_ALERT_COUNT, 12
          Ahead,        \* 10 in dtls1_process_out_of_seq_message
          ByteBits      \* bits of a byte of the reassembly mask, 8

ASSUME LengthsAreNaturals == Lengths \in Seq(Nat)

ASSUME SizesArePositive ==
    /\ {Mtu, FallbackMtu, ByteBits} \subseteq Nat \ {0}
    /\ {AlertLimit, Ahead} \subseteq Nat

VARIABLES next,      \* the message that is written
          off,       \* how much of it was written: init_off, less the header
          fragOff,   \* frag_off, a local of dtls1_do_write
          mtu,       \* d1->mtu
          alerts,    \* timeout.num_alerts
          resend,    \* the position of dtls1_retransmit_buffered_messages, or 0
          net,       \* the fragments sent so far, each may arrive any time
          broken,    \* history: the messages whose writing blocked half-way
          reader     \* next: handshake_read_seq, queue: buffered_messages,
                     \* got (history): the content of the messages read

wVars == <<next, off, fragOff, mtu, alerts, resend, net, broken>>
vars == <<wVars, reader>>

Messages == DOMAIN Lengths      \* message i bears the number i - 1
Count == Len(Lengths)
Smaller(a, b) == IF a < b THEN a ELSE b

(* A fragment of the body of message seq: it claims to start at off, and     *)
(* carries what starts at from.                                              *)
Fragment(seq, fragOffset, len, from) ==
    [seq |-> seq, off |-> fragOffset, len |-> len, from |-> from]

Positions(seq) == 0 .. Lengths[seq] - 1
Covers(f) == f.off .. f.off + f.len - 1

Init ==
    /\ next = 1 /\ off = 0 /\ fragOff = 0
    /\ mtu = Mtu /\ alerts = 0 /\ resend = 0
    /\ net = {} /\ broken = {}
    /\ reader = [next |-> 1, queue |-> {}, got |-> <<>>]

-----------------------------------------------------------------------------
(* The writer.                                                               *)

(* BIO_wpending: a message starts in what the one before left of a datagram  *)
Room == IF off = 0 /\ next > 1 THEN 1 .. mtu ELSE {mtu}

(* One turn of the loop of dtls1_do_write                                    *)
WriteFragment ==
    /\ next \in Messages /\ resend = 0
    /\ \E room \in Room :
          LET len == Smaller(room, Lengths[next] - off)
              ends == off + len = Lengths[next]
          IN /\ net' = net \cup {Fragment(next, fragOff, len, off)}
             /\ next' = IF ends THEN next + 1 ELSE next
             /\ off' = IF ends THEN 0 ELSE off + len
             /\ fragOff' = IF ends THEN 0 ELSE fragOff + len
    /\ UNCHANGED <<mtu, alerts, resend, broken, reader>>

(* The BIO would block: the record is dropped and dtls1_do_write returns. It *)
(* is called again with init_off as it was and a frag_off of 0.              *)
Block ==
    /\ off # 0 /\ fragOff # 0
    /\ fragOff' = 0
    /\ broken' = broken \cup {next}
    /\ UNCHANGED <<next, off, mtu, alerts, resend, net, reader>>

(* dtls1_handle_timeout and dtls1_check_timeout_num, called by an            *)
(* application that is not in the middle of a write. With AlertLimit         *)
(* timeouts behind it the connection fails at the next one.                  *)
Timeout ==
    /\ next > 1 /\ off = 0 /\ resend = 0 /\ alerts < AlertLimit
    /\ alerts' = alerts + 1
    /\ mtu' = IF alerts + 1 > 2 THEN FallbackMtu ELSE mtu
    /\ resend' = 1
    /\ UNCHANGED <<next, off, fragOff, net, broken, reader>>

(* dtls1_do_write of a message in an empty datagram, without a block         *)
Cut(seq, size) ==
    LET Start(k) == k * size
    IN {Fragment(seq, Start(k), Smaller(size, Lengths[seq] - Start(k)), Start(k)) :
            k \in {0} \cup {j \in 0 .. Lengths[seq] : Start(j) < Lengths[seq]}}

(* dtls1_retransmit_message: it sends the copy that was taken of the message *)
(* and flushes. Writes are taken to be blocking, as its comment says.        *)
RetransmitMessage ==
    /\ resend # 0
    /\ net' = net \cup Cut(resend, mtu)
    /\ resend' = IF resend < next - 1 THEN resend + 1 ELSE 0
    /\ UNCHANGED <<next, off, fragOff, mtu, alerts, broken, reader>>

-----------------------------------------------------------------------------
(* The reassembly mask: a sequence of bytes, each the set of its bits.       *)

Bits == 0 .. ByteBits - 1
MaskSize(len) == (len + ByteBits - 1) \div ByteBits      \* RSMBLY_BITMASK_SIZE
StartValue(k) == k .. ByteBits - 1                       \* bitmask_start_values
EndValue(k) == IF k = 0 THEN Bits ELSE 0 .. k - 1        \* bitmask_end_values
ByteOf(i) == i \div ByteBits + 1

(* RSMBLY_BITMASK_MARK, bit by bit or byte by byte                           *)
MarkedBits(mask, start, end) ==
    [b \in DOMAIN mask |->
        mask[b] \cup {k \in Bits : (b - 1) * ByteBits + k \in start .. end - 1}]

MarkedBytes(mask, start, end) ==
    [b \in DOMAIN mask |->
        mask[b] \cup (IF b = ByteOf(start) THEN StartValue(start % ByteBits) ELSE {})
                \cup (IF b > ByteOf(start) /\ b < ByteOf(end - 1) THEN Bits ELSE {})
                \cup (IF b = ByteOf(end - 1) THEN EndValue(end % ByteBits) ELSE {})]

MarkedWithNextByte(mask, start, end) ==  \* a mistake: the last byte is that of end
    IF end - start <= ByteBits THEN MarkedBits(mask, start, end)
    ELSE [b \in DOMAIN mask |->
             IF b \in ByteOf(start) .. ByteOf(end) THEN Bits ELSE mask[b]]

Marked(mask, start, end) ==
    IF end - start <= ByteBits
    THEN MarkedBits(mask, start, end)
    ELSE MarkedBytes(mask, start, end)

(* RSMBLY_BITMASK_IS_COMPLETE                                                *)
IsComplete(mask, len) ==
    /\ mask[ByteOf(len - 1)] = EndValue(len % ByteBits)
    /\ \A b \in 1 .. ByteOf(len - 1) - 1 : mask[b] = Bits

-----------------------------------------------------------------------------
(* The reader, as functions of its state r. An item of the queue holds the   *)
(* content so far (position -> the position it was copied from, or Unset)    *)
(* and the mask, which is NULL when nothing is missing.                      *)

Unset == -1
NULL == <<>>
Items(r, seq) == {item \in r.queue : item.seq = seq}

NewItem(seq) ==                            \* dtls1_hm_fragment_new
    [seq |-> seq,
     content |-> [p \in Positions(seq) |-> Unset],
     reassembly |-> [b \in 1 .. MaskSize(Lengths[seq]) |-> {}]]

Copied(content, f) ==
    [p \in DOMAIN content |-> IF p \in Covers(f) THEN p - f.off + f.from ELSE content[p]]

(* dtls1_reassemble_fragment. What belongs to a message that is whole is     *)
(* read and thrown away.                                                     *)
Reassembled(item, f) ==
    LET mask == Marked(item.reassembly, f.off, f.off + f.len)
    IN IF item.reassembly = NULL THEN item
       ELSE [item EXCEPT !.content = Copied(@, f),
                         !.reassembly = IF IsComplete(mask, Lengths[f.seq]) THEN NULL ELSE mask]

ReassembleAnew(r, f) ==                    \* a mistake: the item is not looked for
    [r EXCEPT !.queue = (@ \ Items(r, f.seq)) \cup {Reassembled(NewItem(f.seq), f)}]

Reassemble(r, f) ==
    LET found == Items(r, f.seq)
        items == IF found = {} THEN {NewItem(f.seq)} ELSE found
    IN [r EXCEPT !.queue = (@ \ found) \cup {Reassembled(item, f) : item \in items}]

(* dtls1_get_message, when it returns a message                              *)
Deliver(r, content) == [r EXCEPT !.next = @ + 1, !.got = Append(@, content)]

IsWhole(f) == f.len = Lengths[f.seq]
Content(f) == Copied(NewItem(f.seq).content, f)

(* dtls1_process_out_of_seq_message                                          *)
OutOfSequence(r, f) ==
    IF \/ f.seq < r.next \/ f.seq > r.next + Ahead
       \/ IsWhole(f) /\ Items(r, f.seq) # {}
    THEN r
    ELSE IF IsWhole(f)
         THEN [r EXCEPT !.queue = @ \cup {[NewItem(f.seq) EXCEPT !.content = Content(f),
                                                                 !.reassembly = NULL]}]
         ELSE Reassemble(r, f)

(* dtls1_get_message_fragment, for a fragment off the record layer. A whole  *)
(* message that is due is not looked for in the queue.                       *)
AcceptAnyOrder(r, f) ==                    \* a mistake: msg_hdr.seq is not compared
    IF IsWhole(f) THEN Deliver(r, Content(f)) ELSE Reassemble(r, f)

Accept(r, f) ==
    IF f.seq # r.next THEN OutOfSequence(r, f)
    ELSE IF IsWhole(f) THEN Deliver(r, Content(f))
    ELSE Reassemble(r, f)

(* dtls1_retrieve_buffered_fragment: pqueue_peek is the item of the smallest *)
(* number.                                                                   *)
Peek(r) == {item \in r.queue : \A other \in r.queue : item.seq <= other.seq}
Retrievable(r) == {item \in Peek(r) : item.reassembly = NULL /\ item.seq = r.next}

Retrieve(r) ==
    IF Retrievable(r) = {} THEN r
    ELSE LET item == CHOOSE i \in Retrievable(r) : TRUE
         IN Deliver([r EXCEPT !.queue = @ \ {item}], item.content)

(* The state machine asks for the next message; the queue comes first.       *)
ReadBuffered ==
    /\ Retrievable(reader) # {}
    /\ reader' = Retrieve(reader)
    /\ UNCHANGED wVars

ReadFragment ==
    /\ Retrievable(reader) = {}
    /\ \E f \in net : reader' = Accept(reader, f)
    /\ UNCHANGED wVars

Next ==
    \/ WriteFragment \/ Block \/ Timeout \/ RetransmitMessage
    \/ ReadBuffered \/ ReadFragment

Spec == Init /\ [][Next]_vars

-----------------------------------------------------------------------------
(* Properties.                                                               *)

IsItem(item) ==
    /\ item.seq \in Messages
    /\ item.content \in [Positions(item.seq) -> Positions(item.seq) \cup {Unset}]
    /\ item.reassembly \in Seq(SUBSET Bits)
    /\ item.reassembly # NULL => Len(item.reassembly) = MaskSize(Lengths[item.seq])

(* Every variable has its type, and a message has one item in the queue.     *)
TypeOK ==
    /\ next \in 1 .. Count + 1
    /\ off \in Nat /\ fragOff \in 0 .. off
    /\ next \in Messages => off <= Lengths[next]
    /\ mtu \in {Mtu, FallbackMtu} /\ alerts \in 0 .. AlertLimit
    /\ resend \in 0 .. next - 1
    /\ \A f \in net : /\ f.seq \in Messages
                      /\ {f.off, f.len, f.from} \subseteq Nat
                      /\ {f.off + f.len, f.from + f.len} \subseteq 0 .. Lengths[f.seq]
    /\ broken \subseteq Messages
    /\ reader.next \in 1 .. Count + 1
    /\ \A item \in reader.queue : IsItem(item)
    /\ \A i, j \in reader.queue : i.seq = j.seq => i = j

(* The messages that were read are those that were sent, each once, in their *)
(* order and with nothing missing ("Read an entire handshake message"),      *)
(* however they were cut and sent again; where the writing of a message      *)
(* blocked half-way, its fragments may say something else.                   *)
ReadIntact ==
    /\ Len(reader.got) = reader.next - 1
    /\ \A i \in DOMAIN reader.got :
          i \notin broken => reader.got[i] = [p \in Positions(i) |-> p]

(* A bit of the mask is set for the positions that were filled and no other, *)
(* so that a message counts as whole when it is.                             *)
MaskIsFilled ==
    \A item \in reader.queue :
        \A p \in Positions(item.seq) :
            (item.content[p] # Unset) =
                (item.reassembly = NULL \/ p % ByteBits \in item.reassembly[ByteOf(p)])

(* The fragments of a retransmission, in the order they are sent             *)
Retransmission ==
    SetToSortSeq(UNION {Cut(i, mtu) : i \in 1 .. next - 1},
                 LAMBDA f, g : f.seq < g.seq \/ (f.seq = g.seq /\ f.off < g.off))

(* The reader when it has read a sequence of fragments, and what it holds    *)
ReadAll(r) == FoldLeft(LAMBDA s, i : Retrieve(s), r, [i \in Messages |-> i])
AfterReading(r, fragments) == FoldLeft(LAMBDA s, f : ReadAll(Accept(s, f)), ReadAll(r), fragments)

(* Every transmission of a message was cut in the same way as the next one   *)
CutsAgree ==
    LET all == net \cup UNION {Cut(i, mtu) : i \in 1 .. next - 1}
    IN \A f, g \in all : f.seq = g.seq /\ f # g => Covers(f) \cap Covers(g) = {}

(* Whatever was lost, repeated or reordered, one retransmission that arrives *)
(* brings the reader to the end of the flight ("just retransmit the last set *)
(* of messages"), provided the messages are always cut in the same way.      *)
RetransmissionSuffices ==
    next > Count /\ CutsAgree => AfterReading(reader, Retransmission).next = Count + 1

(* "check whether the desired fragment is available" (the queue is asked     *)
(* first): when the message that is due is in the queue, it is found there.  *)
DesiredIsRetrieved ==
    (\E item \in reader.queue : item.seq = reader.next /\ item.reassembly = NULL)
        => Retrievable(reader) # {}

(* Messages are read whole, in order and once, and the mask of one that is *)
(* being put together is what has arrived of it (d1_both.c).               *)
MessagesAreIntact == ReadIntact /\ MaskIsFilled
=============================================================================

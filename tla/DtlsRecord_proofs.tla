-------------------------- MODULE DtlsRecord_proofs --------------------------
(* Proofs about the DTLS record layer, for windows, queues and runs of any   *)
(* size: its variables keep their types, no record is accepted twice, no     *)
(* number is used twice, no data is read before its Finished, and data that  *)
(* was accepted is kept until it is read.                                    *)
EXTENDS DtlsRecord, TLAPS

(* The bitmap of the window has its type after every mark.                   *)
LEMMA MarkType ==
    ASSUME NEW bm \in Bitmaps, NEW s \in Nat
    PROVE  Mark(bm, s) \in Bitmaps
<1>1. 0 \in 0 .. Window - 1
  BY WindowIsPositive
<1>2. Shifted(bm.map, s - bm.max) \subseteq 0 .. Window - 1
  BY DEF Shifted
<1> QED
  BY <1>1, <1>2 DEF Mark, Bitmaps

(* A number that was marked is not new.                                      *)
LEMMA MarkedIsOld ==
    ASSUME NEW bm \in Bitmaps, NEW s \in Nat
    PROVE  ~IsNew(Mark(bm, s), s)
<1>1. CASE s > bm.max
  <2>1. Mark(bm, s).max = s /\ 0 \in Mark(bm, s).map
    BY <1>1 DEF Mark
  <2> QED
    BY <2>1 DEF IsNew
<1>2. CASE ~(s > bm.max)
  <2>1. /\ Mark(bm, s).max = bm.max
        /\ Mark(bm, s).map = bm.map \cup {k \in 0 .. Window - 1 : k = bm.max - s}
    BY <1>2 DEF Mark, Bitmaps
  <2>2. bm.max - s < Window => bm.max - s \in Mark(bm, s).map
    BY <1>2, <2>1, WindowIsPositive DEF Bitmaps
  <2> QED
    BY <1>2, <2>1, <2>2 DEF IsNew, Bitmaps
<1> QED
  BY <1>1, <1>2

(* A number that is not new never becomes new again.                         *)
LEMMA OldStaysOld ==
    ASSUME NEW bm \in Bitmaps, NEW s \in Nat, NEW t \in Nat, ~IsNew(bm, t)
    PROVE  ~IsNew(Mark(bm, s), t)
<1>0. t <= bm.max /\ (bm.max - t < Window => bm.max - t \in bm.map)
  BY DEF IsNew, Bitmaps
<1>1. CASE s > bm.max
  <2>1. /\ Mark(bm, s).max = s
        /\ Mark(bm, s).map = Shifted(bm.map, s - bm.max) \cup {0}
    BY <1>1 DEF Mark
  <2>2. ASSUME s - t < Window PROVE s - t \in Shifted(bm.map, s - bm.max)
    <3>1. s - t \in 0 .. Window - 1 /\ bm.max - t < Window
      BY <1>0, <1>1, <2>2, WindowIsPositive DEF Bitmaps
    <3>2. (s - t) - (s - bm.max) = bm.max - t
      BY DEF Bitmaps
    <3> QED
      BY <1>0, <3>1, <3>2 DEF Shifted
  <2> QED
    BY <1>0, <1>1, <2>1, <2>2 DEF IsNew, Bitmaps
<1>2. CASE ~(s > bm.max)
  <2>1. /\ Mark(bm, s).max = bm.max
        /\ bm.map \subseteq Mark(bm, s).map
    BY <1>2 DEF Mark, Bitmaps
  <2> QED
    BY <1>0, <2>1 DEF IsNew, Bitmaps
<1> QED
  BY <1>1, <1>2

(* The shape of a flight: Finished is its last message and no other.         *)
LEMMA FlightShape ==
    ASSUME writer \in {"client", "server"}
    PROVE  /\ Flight \in Seq(Kinds)
           /\ Len(Flight) \in Nat /\ Len(Flight) >= 3
           /\ \A i \in 1 .. Len(Flight) : Flight[i] \in Kinds
           /\ \A i \in 1 .. Len(Flight) : Flight[i] = "finished" => i = Len(Flight)
<1>1. CASE writer = "server"
  BY <1>1 DEF Flight, Kinds
<1>2. CASE writer = "client" /\ ClientVerifies
  BY <1>2 DEF Flight, Kinds
<1>3. CASE writer = "client" /\ ~ClientVerifies
  BY <1>3 DEF Flight, Kinds
<1> QED
  BY <1>1, <1>2, <1>3

(* The record being read, when there is one, is a record.                    *)
LEMMA ReadRecord ==
    ASSUME rr \in Records \cup {None}, rr.type \in Types
    PROVE  rr \in Records
  BY DEF None, Types, Kinds

LEMMA InsertedIsSubset ==
    ASSUME NEW queue, NEW r
    PROVE  Inserted(queue, r) \subseteq queue \cup {r}
  BY DEF Inserted

LEMMA ElementOfSequence ==
    ASSUME NEW S, NEW seq \in Seq(S), NEW i \in 1 .. Len(seq)
    PROVE  seq[i] \in S
  OBVIOUS

(* What a step of the writer does to its own variables keeps their types.    *)
LEMMA WriterType ==
    ASSUME TypeOK, WriterNext, UNCHANGED rVars
    PROVE  TypeOK'
<1> USE BoundsAreNaturals
<1> DEFINE Message == [type: Kinds \cup {"ccs"}, epoch: Epochs]
<1>f. /\ Flight' = Flight /\ Flight \in Seq(Kinds) /\ Len(Flight) \in Nat /\ Len(Flight) >= 3
      /\ \A i \in 1 .. Len(Flight) : Flight[i] \in Kinds
  <2>1. writer' = writer
    BY DEF WriterNext, SendMessage, SendChangeCipherSpec, ClientDone, SendData,
           WriterRenegotiates, StartRetransmit, RetransmitMessage
  <2> QED
    BY <2>1, FlightShape DEF TypeOK, Flight
<1>w. ASSUME NEW type \in Types, NEW epoch \in Epochs, NEW seq \in Seqs, Write(type, epoch, seq)
      PROVE  net' \subseteq Records /\ written' \in [Epochs \X Seqs -> Nat]
  <2>1. [epoch |-> epoch, seq |-> seq, type |-> type] \in Records
    BY <1>w DEF Records
  <2>2. <<epoch, seq>> \in Epochs \X Seqs
    BY <1>w
  <2> QED
    BY <1>w, <2>1, <2>2 DEF Write, TypeOK
<1>r. /\ rEpoch' \in Nat /\ bitmap' \in Bitmaps
      /\ unprocessed' \subseteq Records /\ unprocessedEpoch' \in Nat
      /\ processed' \subseteq Records /\ appData' \subseteq Records
      /\ rr' \in Records \cup {None}
      /\ ccs' \in BOOLEAN /\ ccsOk' \in BOOLEAN
      /\ rState' \in {"init", "ok", "failed"}
      /\ expected' \in 1 .. Len(Flight) /\ early' \subseteq Kinds
      /\ accepted' \in [Epochs \X Seqs -> Nat]
      /\ finished' \in Nat /\ delivered' \subseteq Records
  BY DEF TypeOK, rVars, queues, hsVars
<1> DEFINE WriterTyped ==
             /\ writer' \in {"client", "server"}
             /\ wEpoch' \in Epochs /\ writeSeq' \in Nat /\ lastSeq' \in Nat
             /\ sent' \in Seq(Message)
             /\ resend' \in 0 .. Len(sent') /\ resends' \in 0 .. MaxResends
             /\ wNext' \in 1 .. Len(Flight) + 1 /\ wOk' \in BOOLEAN
             /\ net' \subseteq Records
             /\ written' \in [Epochs \X Seqs -> Nat]
<1>t. /\ writer \in {"client", "server"}
      /\ wEpoch \in Epochs /\ writeSeq \in Nat /\ lastSeq \in Nat
      /\ sent \in Seq(Message)
      /\ resend \in 0 .. Len(sent) /\ resends \in 0 .. MaxResends
      /\ wNext \in 1 .. Len(Flight) + 1 /\ wOk \in BOOLEAN
      /\ net \subseteq Records
      /\ written \in [Epochs \X Seqs -> Nat]
  BY DEF TypeOK
<1>q. WriterTyped => TypeOK'
  BY <1>f, <1>r DEF TypeOK
<1>1. CASE SendMessage
  <2>1. /\ Flight[wNext] \in Kinds
        /\ [type |-> Flight[wNext], epoch |-> wEpoch] \in Message
    BY <1>1, <1>f, <1>t DEF SendMessage
  <2>2. sent' \in Seq(Message) /\ Len(sent') \in Nat
    BY <1>1, <1>t, <2>1 DEF SendMessage, Buffered
  <2>3. net' \subseteq Records /\ written' \in [Epochs \X Seqs -> Nat]
    BY <1>1, <1>w, <1>t, <2>1 DEF SendMessage, Types
  <2>4. wNext' \in 1 .. Len(Flight) + 1 /\ wOk' \in BOOLEAN
    BY <1>1, <1>f, <1>t DEF SendMessage
  <2>5. /\ writer' \in {"client", "server"}
        /\ wEpoch' \in Epochs /\ writeSeq' \in Nat /\ lastSeq' \in Nat
        /\ resend' = 0 /\ resends' \in 0 .. MaxResends
    BY <1>1, <1>t DEF SendMessage
  <2> QED
    BY <1>q, <2>2, <2>3, <2>4, <2>5
<1>2. CASE SendChangeCipherSpec
  <2>1. sent' \in Seq(Message) /\ Len(sent') \in Nat
    BY <1>2, <1>t DEF SendChangeCipherSpec
  <2>2. net' \subseteq Records /\ written' \in [Epochs \X Seqs -> Nat]
    BY <1>2, <1>w, <1>t DEF SendChangeCipherSpec, Types
  <2>3. /\ writer' \in {"client", "server"}
        /\ wEpoch' \in Epochs /\ writeSeq' \in Nat /\ lastSeq' \in Nat
        /\ resend' = 0 /\ resends' \in 0 .. MaxResends
        /\ wNext' \in 1 .. Len(Flight) + 1 /\ wOk' \in BOOLEAN
    BY <1>2, <1>t DEF SendChangeCipherSpec
  <2> QED
    BY <1>q, <2>1, <2>2, <2>3
<1>3. CASE ClientDone
  BY <1>3, <1>t, <1>q DEF ClientDone
<1>4. CASE SendData
  <2>1. net' \subseteq Records /\ written' \in [Epochs \X Seqs -> Nat]
    BY <1>4, <1>w, <1>t DEF SendData, Types
  <2> QED
    BY <1>4, <1>t, <1>q, <2>1 DEF SendData
<1>5. CASE WriterRenegotiates
  <2>1. 1 \in 1 .. Len(Flight) + 1
    BY <1>f
  <2> QED
    BY <1>5, <1>t, <1>q, <2>1 DEF WriterRenegotiates
<1>6. CASE StartRetransmit
  <2>1. Len(sent) \in Nat \ {0}
    BY <1>6, <1>t DEF StartRetransmit
  <2> QED
    BY <1>6, <1>t, <1>q, <2>1 DEF StartRetransmit
<1>7. CASE RetransmitMessage
  <2>1. Len(sent) \in Nat /\ resend \in 1 .. Len(sent)
    BY <1>7, <1>t DEF RetransmitMessage
  <2>2. sent[resend].type \in Types /\ sent[resend].epoch \in Epochs
    <3>1. sent[resend] \in Message
      BY <1>t, <2>1, ElementOfSequence
    <3>2. \A m \in Message : m.type \in Kinds \cup {"ccs"} /\ m.epoch \in Epochs
      OBVIOUS
    <3> QED
      BY <3>1, <3>2 DEF Types
  <2>3. SavedNumbers(sent[resend]) \in Seqs /\ SavedNumbers(sent[resend]) \in Nat
    BY <1>7 DEF RetransmitMessage, Seqs
  <2>4. net' \subseteq Records /\ written' \in [Epochs \X Seqs -> Nat]
    BY <1>7, <1>w, <2>2, <2>3 DEF RetransmitMessage
  <2>5. writeSeq' \in Nat /\ lastSeq' \in Nat
    BY <1>7, <1>t, <2>3 DEF RetransmitMessage
  <2>6. resend' \in 0 .. Len(sent)
    BY <1>7, <2>1 DEF RetransmitMessage, NextResend
  <2> QED
    BY <1>7, <1>t, <1>q, <2>4, <2>5, <2>6 DEF RetransmitMessage
<1> QED
  BY <1>1, <1>2, <1>3, <1>4, <1>5, <1>6, <1>7 DEF WriterNext

(* The same of a step of the reader.                                         *)
LEMMA ReaderType ==
    ASSUME TypeOK, ReaderNext
    PROVE  TypeOK'
<1> USE BoundsAreNaturals
<1>v. UNCHANGED wVars
  BY DEF ReaderNext, ProcessBuffered, GetProcessed, GetRecord, BufferNextEpoch, GetHeldData,
         HoldData, ReadData, ReadChangeCipherSpec, ReadMessage, ReadEarlyMessage, Reenter,
         ReaderRenegotiates
<1>f. /\ Flight' = Flight /\ Flight \in Seq(Kinds) /\ Len(Flight) \in Nat /\ Len(Flight) >= 3
      /\ \A i \in 1 .. Len(Flight) : Flight[i] \in Kinds
      /\ \A i \in 1 .. Len(Flight) : Flight[i] = "finished" => i = Len(Flight)
  BY <1>v, FlightShape DEF TypeOK, Flight, wVars
<1>t. /\ rEpoch \in Nat /\ bitmap \in Bitmaps
      /\ unprocessed \subseteq Records /\ unprocessedEpoch \in Nat
      /\ processed \subseteq Records /\ appData \subseteq Records
      /\ rr \in Records \cup {None}
      /\ ccs \in BOOLEAN /\ ccsOk \in BOOLEAN
      /\ rState \in {"init", "ok", "failed"}
      /\ expected \in 1 .. Len(Flight) /\ early \subseteq Kinds
      /\ accepted \in [Epochs \X Seqs -> Nat]
      /\ finished \in Nat /\ delivered \subseteq Records
      /\ net \subseteq Records
  BY DEF TypeOK
<1> DEFINE RecordsTyped ==
             /\ rEpoch' \in Nat /\ bitmap' \in Bitmaps
             /\ unprocessed' \subseteq Records /\ unprocessedEpoch' \in Nat
             /\ processed' \subseteq Records /\ appData' \subseteq Records
             /\ rr' \in Records \cup {None}
             /\ accepted' \in [Epochs \X Seqs -> Nat]
             /\ delivered' \subseteq Records
           StateTyped ==
             /\ ccs' \in BOOLEAN /\ ccsOk' \in BOOLEAN
             /\ rState' \in {"init", "ok", "failed"}
             /\ expected' \in 1 .. Len(Flight) /\ early' \subseteq Kinds
             /\ finished' \in Nat
<1>q. RecordsTyped /\ StateTyped => TypeOK'
  BY <1>f, <1>v DEF TypeOK, wVars
<1>s. UNCHANGED hsVars => StateTyped
  BY <1>t DEF hsVars
<1>p. ASSUME NEW r \in Records, Process(r)
      PROVE  bitmap' \in Bitmaps /\ accepted' \in [Epochs \X Seqs -> Nat]
  <2>1. r.seq \in Nat /\ Number(r) \in Epochs \X Seqs
    BY DEF Records, Seqs, Number
  <2>2. bitmap' \in Bitmaps
    BY <1>p, <1>t, <2>1, MarkType DEF Process
  <2>3. accepted' \in [Epochs \X Seqs -> Nat]
    BY <1>p, <1>t, <2>1 DEF Process
  <2> QED
    BY <2>2, <2>3
<1>e. SyncEpoch => unprocessedEpoch' \in Nat
  BY <1>t DEF SyncEpoch, Epochs
<1>b. Fresh \in Bitmaps
  BY DEF Fresh, Bitmaps
<1>h. ASSUME Handle(Flight[expected]), UNCHANGED rEpoch
      PROVE  /\ ccs' \in BOOLEAN /\ ccsOk' \in BOOLEAN
             /\ rState' \in {"init", "ok", "failed"}
             /\ expected' \in 1 .. Len(Flight) /\ finished' \in Nat
  <2>1. CASE Flight[expected] # "finished"
    <3>1. expected < Len(Flight)
      <4>1. Flight[Len(Flight)] = "finished"
        BY DEF Flight
      <4> QED
        BY <1>f, <1>t, <2>1, <4>1
    <3> QED
      BY <1>h, <1>t, <1>f, <2>1, <3>1 DEF Handle
  <2>2. CASE Flight[expected] = "finished"
    <3>1. 1 \in 1 .. Len(Flight)
      BY <1>f
    <3>2. CASE ccs
      BY <1>h, <1>t, <2>2, <3>1, <3>2 DEF Handle
    <3>3. CASE ~ccs
      BY <1>h, <1>t, <2>2, <3>3 DEF Handle
    <3> QED
      BY <3>2, <3>3
  <2> QED
    BY <2>1, <2>2
<1>1. CASE ProcessBuffered
  <2>1. PICK r \in Records : /\ Process(r)
                             /\ unprocessed' = unprocessed \ {r}
                             /\ processed' = Inserted(processed, r)
    BY <1>1, <1>t DEF ProcessBuffered, First
  <2> QED
    BY <1>1, <1>t, <1>p, <1>q, <1>s, <2>1, InsertedIsSubset DEF ProcessBuffered
<1>2. CASE GetProcessed
  <2>1. rr' \in processed /\ processed' \subseteq processed
    BY <1>2 DEF GetProcessed, First
  <2> QED
    BY <1>2, <1>t, <1>e, <1>q, <1>s, <2>1 DEF GetProcessed
<1>3. CASE GetRecord
  <2>1. PICK r \in net : Process(r) /\ rr' = r
    BY <1>3 DEF GetRecord
  <2> QED
    BY <1>3, <1>t, <1>p, <1>e, <1>q, <1>s, <2>1 DEF GetRecord
<1>4. CASE BufferNextEpoch
  <2>1. unprocessed' \subseteq Records
    BY <1>4, <1>t, InsertedIsSubset DEF BufferNextEpoch
  <2> QED
    BY <1>4, <1>t, <1>e, <1>q, <1>s, <2>1 DEF BufferNextEpoch
<1>5. CASE GetHeldData
  <2>1. rr' \in appData /\ appData' \subseteq appData
    BY <1>5 DEF GetHeldData, First
  <2> QED
    BY <1>5, <1>t, <1>q, <1>s, <2>1 DEF GetHeldData
<1>6. CASE HoldData
  <2>1. appData' \subseteq Records
    BY <1>6, <1>t, InsertedIsSubset DEF HoldData
  <2> QED
    BY <1>6, <1>t, <1>q, <1>s, <2>1 DEF HoldData
<1>7. CASE ReadData
  <2>1. rr \in Records
    BY <1>7, <1>t, ReadRecord DEF ReadData, Types
  <2> QED
    BY <1>7, <1>t, <1>q, <1>s, <2>1 DEF ReadData, queues
<1>8. CASE ReadChangeCipherSpec
  <2>1. rEpoch' \in Nat /\ rState' \in {"init", "ok", "failed"} /\ bitmap' \in Bitmaps
    BY <1>8, <1>t, <1>b DEF ReadChangeCipherSpec
  <2> QED
    BY <1>8, <1>t, <1>b, <1>q, <2>1 DEF ReadChangeCipherSpec, queues
<1>9. CASE ReadMessage
  <2>0. RecordsTyped
    BY <1>9, <1>t DEF ReadMessage, queues
  <2>1. CASE rState = "ok" /\ rr.type = "finished"
    BY <1>9, <1>q, <1>s, <2>0, <2>1 DEF ReadMessage
  <2>2. CASE ~(rState = "ok" /\ rr.type = "finished") /\ rr.type = Flight[expected]
    <3>1. Handle(Flight[expected]) /\ UNCHANGED <<early, rEpoch>>
      BY <1>9, <2>2 DEF ReadMessage
    <3> QED
      BY <1>h, <1>q, <1>t, <2>0, <3>1
  <2>3. CASE ~(rState = "ok" /\ rr.type = "finished") /\ rr.type # Flight[expected]
    <3>1. /\ rState' = "init"
          /\ UNCHANGED <<ccs, ccsOk, expected, finished>>
          /\ early' = early \cup {Flight[i] : i \in {j \in expected + 1 .. Len(Flight) : Flight[j] = rr.type}}
      BY <1>9, <2>3 DEF ReadMessage
    <3>2. early' \subseteq Kinds
      BY <1>f, <1>t, <3>1
    <3> QED
      BY <1>q, <1>t, <2>0, <3>1, <3>2
  <2> QED
    BY <2>1, <2>2, <2>3
<1>10. CASE ReadEarlyMessage
  <2>0. RecordsTyped /\ early' \subseteq Kinds
    BY <1>10, <1>t DEF ReadEarlyMessage, queues
  <2>1. CASE Flight[expected] = "finished"
    BY <1>10, <1>q, <1>t, <2>0, <2>1 DEF ReadEarlyMessage
  <2>2. CASE Flight[expected] # "finished"
    <3>1. Handle(Flight[expected]) /\ UNCHANGED rEpoch
      BY <1>10, <2>2 DEF ReadEarlyMessage
    <3> QED
      BY <1>h, <1>q, <2>0, <3>1
  <2> QED
    BY <2>1, <2>2
<1>11. CASE Reenter
  BY <1>11, <1>t, <1>q DEF Reenter, queues
<1>12. CASE ReaderRenegotiates
  BY <1>12, <1>t, <1>q DEF ReaderRenegotiates, queues
<1> QED
  BY <1>1, <1>2, <1>3, <1>4, <1>5, <1>6, <1>7, <1>8, <1>9, <1>10, <1>11, <1>12 DEF ReaderNext

(* The initial values have their types.                                      *)
LEMMA InitType == Init => TypeOK
<1>1. Fresh \in Bitmaps
  BY DEF Fresh, Bitmaps
<1>2. ASSUME Init PROVE /\ <<>> \in Seq([type: Kinds \cup {"ccs"}, epoch: Epochs])
                        /\ 0 \in 0 .. Len(sent) /\ 0 \in Epochs
                        /\ 1 \in 1 .. Len(Flight) /\ 1 \in 1 .. Len(Flight) + 1
  <2>1. writer \in {"client", "server"}
    BY <1>2, WritersAreEnds DEF Init
  <2> QED
    BY <1>2, <2>1, FlightShape, BoundsAreNaturals DEF Init, Epochs
<1>3. ASSUME Init PROVE /\ written \in [Epochs \X Seqs -> Nat]
                        /\ accepted \in [Epochs \X Seqs -> Nat]
  BY <1>3 DEF Init
<1>4. ASSUME Init PROVE /\ writer \in {"client", "server"}
                        /\ resends \in 0 .. MaxResends
  BY <1>4, WritersAreEnds, BoundsAreNaturals DEF Init
<1> SUFFICES ASSUME Init PROVE TypeOK
  OBVIOUS
<1>5. /\ wEpoch \in Epochs /\ writeSeq \in Nat /\ lastSeq \in Nat
      /\ resend \in 0 .. Len(sent)
      /\ wNext \in 1 .. Len(Flight) + 1 /\ wOk \in BOOLEAN
      /\ net \subseteq Records
  BY <1>2 DEF Init
<1>6. /\ rEpoch \in Nat /\ bitmap \in Bitmaps
      /\ unprocessed \subseteq Records /\ unprocessedEpoch \in Nat
      /\ processed \subseteq Records /\ appData \subseteq Records
      /\ rr \in Records \cup {None}
      /\ finished \in Nat /\ delivered \subseteq Records
  BY <1>1 DEF Init
<1>7. /\ ccs \in BOOLEAN /\ ccsOk \in BOOLEAN
      /\ rState \in {"init", "ok", "failed"}
      /\ expected \in 1 .. Len(Flight) /\ early \subseteq Kinds
  BY <1>2 DEF Init
<1>8. sent \in Seq([type: Kinds \cup {"ccs"}, epoch: Epochs])
  BY <1>2 DEF Init
<1> QED
  BY <1>3, <1>4, <1>5, <1>6, <1>7, <1>8 DEF TypeOK

(* Every variable has its type, in every run.                                *)
THEOREM TypeCorrect == Spec => []TypeOK
<1>1. Init => TypeOK
  BY InitType
<1>2. TypeOK /\ [Next]_vars => TypeOK'
  <2> SUFFICES ASSUME TypeOK, [Next]_vars PROVE TypeOK'
    OBVIOUS
  <2>1. CASE WriterNext /\ UNCHANGED rVars
    BY <2>1, WriterType
  <2>2. CASE ReaderNext
    BY <2>2, ReaderType
  <2>3. CASE UNCHANGED vars
    BY <2>3 DEF TypeOK, Flight, vars, wVars, rVars, queues, hsVars
  <2> QED
    BY <2>1, <2>2, <2>3 DEF Next
<1> QED
  BY <1>1, <1>2, PTL DEF Spec

-----------------------------------------------------------------------------
(* No record is accepted twice.                                              *)

(* What was accepted in the current epoch is no longer new, and nothing was  *)
(* accepted in an epoch to come.                                             *)
WindowCovers ==
    /\ \A n \in Epochs \X Seqs : n[1] = rEpoch /\ accepted[n] # 0 => ~IsNew(bitmap, n[2])
    /\ \A n \in Epochs \X Seqs : n[1] > rEpoch => accepted[n] = 0

(* Records that wait for their epoch have different numbers, and none was    *)
(* accepted before they are: no other record is taken until they all are.    *)
WaitingIsNew ==
    /\ unprocessedEpoch <= rEpoch + 1
    /\ \A r, other \in unprocessed : r.seq = other.seq => r = other
    /\ unprocessedEpoch >= rEpoch => \A r \in unprocessed : r.epoch = unprocessedEpoch
    /\ Draining => \A r \in unprocessed : accepted[Number(r)] = 0

ReaderInv == TypeOK /\ AcceptedOnce /\ WindowCovers /\ WaitingIsNew

(* A record that is new when it is processed is accepted for the first time. *)
LEMMA ProcessOnce ==
    ASSUME ReaderInv, NEW r \in Records, r.epoch = rEpoch, accepted[Number(r)] = 0,
           Process(r), rEpoch' = rEpoch
    PROVE  /\ AcceptedOnce' /\ WindowCovers'
           /\ accepted' = [accepted EXCEPT ![Number(r)] = 1]
<1> DEFINE n0 == Number(r)
<1>1. /\ r.seq \in Nat /\ n0 \in Epochs \X Seqs /\ n0[1] = rEpoch /\ n0[2] = r.seq
      /\ bitmap \in Bitmaps /\ accepted \in [Epochs \X Seqs -> Nat]
  BY DEF ReaderInv, TypeOK, Records, Seqs, Number
<1>2. accepted' = [accepted EXCEPT ![n0] = 1] /\ bitmap' = Mark(bitmap, r.seq)
  BY <1>1 DEF Process
<1>3. ASSUME NEW n \in Epochs \X Seqs
      PROVE  accepted'[n] = IF n = n0 THEN 1 ELSE accepted[n]
  BY <1>1, <1>2
<1>4. AcceptedOnce'
  BY <1>3 DEF AcceptedOnce, ReaderInv
<1>5. ASSUME NEW n \in Epochs \X Seqs, n[1] = rEpoch, accepted'[n] # 0
      PROVE  ~IsNew(bitmap', n[2])
  <2>1. n[2] \in Nat
    BY DEF Seqs
  <2>2. CASE n = n0
    BY <1>1, <1>2, <2>2, MarkedIsOld
  <2>3. CASE n # n0
    <3>1. ~IsNew(bitmap, n[2])
      BY <1>3, <1>5, <2>3 DEF ReaderInv, WindowCovers
    <3> QED
      BY <1>1, <1>2, <2>1, <3>1, OldStaysOld
  <2> QED
    BY <2>2, <2>3
<1>6. ASSUME NEW n \in Epochs \X Seqs, n[1] > rEpoch
      PROVE  accepted'[n] = 0
  <2>1. n # n0
    BY <1>1, <1>6 DEF ReaderInv, TypeOK
  <2> QED
    BY <1>3, <1>6, <2>1 DEF ReaderInv, WindowCovers
<1>7. WindowCovers'
  BY <1>5, <1>6 DEF WindowCovers
<1> QED
  BY <1>2, <1>4, <1>7

(* The reader's invariant is kept by every step.                             *)
LEMMA ReaderInvStep ==
    ASSUME ReaderInv, [Next]_vars
    PROVE  ReaderInv'
<1>0. TypeOK /\ AcceptedOnce /\ WindowCovers /\ WaitingIsNew
  BY DEF ReaderInv
<1>t. TypeOK'
  BY <1>0, WriterType, ReaderType DEF Next, TypeOK, Flight, vars, wVars, rVars, queues, hsVars
<1>r. /\ rEpoch \in Nat /\ unprocessedEpoch \in Nat /\ unprocessed \subseteq Records
      /\ net \subseteq Records /\ accepted \in [Epochs \X Seqs -> Nat] /\ Epochs \subseteq Nat
  BY <1>0 DEF TypeOK, Epochs
<1>s. ASSUME UNCHANGED <<rEpoch, bitmap, accepted, unprocessed, unprocessedEpoch>>
      PROVE  ReaderInv'
  BY <1>0, <1>t, <1>s DEF ReaderInv, AcceptedOnce, WindowCovers, WaitingIsNew, Draining
<1>y. ASSUME SyncEpoch, UNCHANGED rEpoch, ~Draining
      PROVE  /\ unprocessedEpoch' <= rEpoch + 1
             /\ unprocessed # {} => unprocessedEpoch' = unprocessedEpoch
             /\ unprocessed = {} => unprocessedEpoch' = rEpoch + 1
             /\ unprocessed # {} => unprocessedEpoch' # rEpoch
  BY <1>0, <1>r, <1>y DEF SyncEpoch, Draining, WaitingIsNew
<1>1. CASE WriterNext /\ UNCHANGED rVars
  BY <1>s, <1>1 DEF rVars, queues
<1>2. CASE ProcessBuffered
  <2>1. PICK r \in unprocessed : Process(r) /\ unprocessed' = unprocessed \ {r}
    BY <1>2 DEF ProcessBuffered, First
  <2>2. Draining /\ UNCHANGED <<rEpoch, unprocessedEpoch>>
    BY <1>2 DEF ProcessBuffered
  <2>3. r \in Records /\ r.epoch = rEpoch /\ accepted[Number(r)] = 0
    BY <1>0, <1>r, <2>2 DEF WaitingIsNew, Draining
  <2>4. /\ AcceptedOnce' /\ WindowCovers'
        /\ accepted' = [accepted EXCEPT ![Number(r)] = 1]
    BY <2>1, <2>2, <2>3, ProcessOnce
  <2>5. ASSUME NEW other \in unprocessed' PROVE accepted'[Number(other)] = 0
    <3>1. other \in unprocessed /\ other # r
      BY <2>1
    <3>2. other \in Records /\ other.seq # r.seq /\ accepted[Number(other)] = 0
      BY <1>0, <1>r, <2>2, <3>1 DEF WaitingIsNew
    <3>3. Number(other) # Number(r) /\ Number(other) \in Epochs \X Seqs
      BY <3>2 DEF Number, Records
    <3> QED
      BY <1>r, <2>4, <3>2, <3>3
  <2>6. WaitingIsNew'
    BY <1>0, <2>1, <2>2, <2>5 DEF WaitingIsNew
  <2> QED
    BY <1>t, <2>4, <2>6 DEF ReaderInv
<1>3. CASE GetRecord
  <2>1. PICK r \in net : IsCurrent(r) /\ Process(r)
    BY <1>3 DEF GetRecord
  <2>2. ~Draining /\ SyncEpoch /\ UNCHANGED <<rEpoch, unprocessed>>
    BY <1>3 DEF GetRecord
  <2>3. r \in Records /\ r.epoch = rEpoch /\ Number(r) \in Epochs \X Seqs
        /\ Number(r)[1] = rEpoch /\ Number(r)[2] = r.seq
    BY <1>r, <2>1 DEF IsCurrent, Number, Records
  <2>4. accepted[Number(r)] = 0
    BY <1>0, <2>1, <2>3 DEF IsCurrent, WindowCovers
  <2>5. AcceptedOnce' /\ WindowCovers'
    BY <2>1, <2>2, <2>3, <2>4, ProcessOnce
  <2>6. ~Draining'
    BY <1>y, <2>2 DEF Draining
  <2>7. WaitingIsNew'
    BY <1>0, <1>r, <1>y, <2>2, <2>6 DEF WaitingIsNew
  <2> QED
    BY <1>t, <2>5, <2>7 DEF ReaderInv
<1>4. CASE GetProcessed
  <2>1. ~Draining /\ SyncEpoch /\ UNCHANGED <<rEpoch, bitmap, unprocessed, accepted>>
    BY <1>4 DEF GetProcessed
  <2>2. ~Draining'
    BY <1>y, <2>1 DEF Draining
  <2>3. WaitingIsNew'
    BY <1>0, <1>r, <1>y, <2>1, <2>2 DEF WaitingIsNew
  <2> QED
    BY <1>0, <1>t, <2>1, <2>3 DEF ReaderInv, AcceptedOnce, WindowCovers
<1>5. CASE BufferNextEpoch
  <2>1. ~Draining /\ SyncEpoch /\ UNCHANGED <<rEpoch, bitmap, accepted>>
    BY <1>5 DEF BufferNextEpoch
  <2>2. PICK r \in net : IsNextEpoch(r) /\ unprocessed' = Inserted(unprocessed, r)
    BY <1>5 DEF BufferNextEpoch
  <2>3. r.epoch = rEpoch + 1
    BY <2>2 DEF IsNextEpoch
  <2>4. unprocessedEpoch' # rEpoch /\ unprocessedEpoch' <= rEpoch + 1
    BY <1>r, <1>y, <2>1
  <2>5. \A a, b \in unprocessed' : a.seq = b.seq => a = b
    BY <1>0, <2>2 DEF WaitingIsNew, Inserted
  <2>6. unprocessedEpoch' >= rEpoch => \A a \in unprocessed' : a.epoch = unprocessedEpoch'
    <3> SUFFICES ASSUME unprocessedEpoch' >= rEpoch, NEW a \in unprocessed'
                 PROVE  a.epoch = unprocessedEpoch'
      OBVIOUS
    <3>1. unprocessedEpoch' = rEpoch + 1
      BY <1>r, <1>t, <2>4 DEF TypeOK
    <3>2. CASE a = r
      BY <2>3, <3>1, <3>2
    <3>3. CASE a \in unprocessed
      BY <1>0, <1>r, <1>y, <2>1, <3>1, <3>3 DEF WaitingIsNew
    <3> QED
      BY <2>2, <3>2, <3>3, InsertedIsSubset
  <2>7. ~Draining'
    BY <2>1, <2>4 DEF Draining
  <2>8. WaitingIsNew'
    BY <2>1, <2>4, <2>5, <2>6, <2>7 DEF WaitingIsNew
  <2> QED
    BY <1>0, <1>t, <2>1, <2>8 DEF ReaderInv, AcceptedOnce, WindowCovers
<1>6. CASE ReadChangeCipherSpec
  <2>1. UNCHANGED <<unprocessed, unprocessedEpoch, accepted>>
    BY <1>6 DEF ReadChangeCipherSpec, queues
  <2>2. CASE UNCHANGED <<rEpoch, bitmap>>
    BY <1>s, <2>1, <2>2
  <2>3. CASE rEpoch' = rEpoch + 1 /\ bitmap' = Fresh
    <3>1. AcceptedOnce'
      BY <1>0, <2>1 DEF AcceptedOnce
    <3>2. WindowCovers'
      <4>1. ASSUME NEW n \in Epochs \X Seqs, n[1] >= rEpoch + 1
            PROVE  accepted[n] = 0
        <5>1. n[1] \in Nat
          BY <1>r
        <5> QED
          BY <1>0, <1>r, <4>1, <5>1 DEF WindowCovers
      <4>2. ASSUME NEW n \in Epochs \X Seqs PROVE n[1] \in Nat
        BY <1>r
      <4> QED
        BY <1>r, <2>1, <2>3, <4>1, <4>2 DEF WindowCovers
    <3>3. Draining' => \A r \in unprocessed' : accepted'[Number(r)] = 0
      <4> SUFFICES ASSUME Draining', NEW r \in unprocessed
                   PROVE  accepted[Number(r)] = 0
        BY <2>1
      <4>1. r.epoch = unprocessedEpoch /\ unprocessedEpoch = rEpoch + 1
        <5>1. unprocessedEpoch = rEpoch + 1
          BY <2>1, <2>3 DEF Draining
        <5> QED
          BY <1>0, <1>r, <5>1 DEF WaitingIsNew
      <4>2. Number(r) \in Epochs \X Seqs /\ Number(r)[1] = rEpoch + 1
        BY <1>r, <4>1 DEF Number, Records
      <4> QED
        BY <1>0, <1>r, <4>2 DEF WindowCovers
    <3>4. WaitingIsNew'
      BY <1>0, <1>r, <2>1, <2>3, <3>3 DEF WaitingIsNew
    <3> QED
      BY <1>t, <3>1, <3>2, <3>4 DEF ReaderInv
  <2> QED
    BY <1>6, <2>2, <2>3 DEF ReadChangeCipherSpec
<1>7. CASE GetHeldData \/ HoldData \/ ReadData \/ ReadMessage \/ ReadEarlyMessage
           \/ Reenter \/ ReaderRenegotiates
  <2>1. UNCHANGED <<rEpoch, bitmap, accepted, unprocessed, unprocessedEpoch>>
    BY <1>7 DEF GetHeldData, HoldData, ReadData, ReadMessage, ReadEarlyMessage, Reenter,
                ReaderRenegotiates, queues
  <2> QED
    BY <1>s, <2>1
<1>8. CASE UNCHANGED vars
  BY <1>s, <1>8 DEF vars, rVars, queues
<1> QED
  BY <1>1, <1>2, <1>3, <1>4, <1>5, <1>6, <1>7, <1>8 DEF Next, ReaderNext

LEMMA InitReaderInv == Init => ReaderInv
<1> SUFFICES ASSUME Init PROVE AcceptedOnce /\ WindowCovers /\ WaitingIsNew
  BY InitType DEF ReaderInv
<1>1. \A n \in Epochs \X Seqs : accepted[n] = 0
  BY DEF Init
<1>2. unprocessed = {} /\ unprocessedEpoch = 0 /\ rEpoch = 0
  BY DEF Init
<1> QED
  BY <1>1, <1>2 DEF AcceptedOnce, WindowCovers, WaitingIsNew, Draining

(* A reader accepts every record at most once, whatever the network does,    *)
(* also one that waited for its epoch beside copies of itself.               *)
THEOREM RecordsAreAcceptedOnce == Spec => []AcceptedOnce
<1>1. Init => ReaderInv
  BY InitReaderInv
<1>2. ReaderInv /\ [Next]_vars => ReaderInv'
  BY ReaderInvStep
<1>3. ReaderInv => AcceptedOnce
  BY DEF ReaderInv
<1> QED
  BY <1>1, <1>2, <1>3, PTL DEF Spec

-----------------------------------------------------------------------------
(* No number is used for two records.                                        *)

(* The numbers that are left in the present epoch, in the one before it, to  *)
(* which a retransmission may return, and in those to come.                  *)
UnusedAhead ==
    /\ \A n \in Epochs \X Seqs : n[1] = wEpoch /\ n[2] >= writeSeq => written[n] = 0
    /\ \A n \in Epochs \X Seqs : n[1] = wEpoch - 1 /\ n[2] >= lastSeq => written[n] = 0
    /\ \A n \in Epochs \X Seqs : n[1] > wEpoch => written[n] = 0

(* A message that may be sent again is of the present epoch or the one       *)
(* before, and of the present one when the epoch is about to change.         *)
SavedEpochs ==
    /\ \A i \in DOMAIN sent : sent[i].epoch \in {wEpoch, wEpoch - 1}
    /\ wNext > 2 /\ (\A i \in DOMAIN sent : sent[i].type # "ccs")
         => \A i \in DOMAIN sent : sent[i].epoch = wEpoch

WriterInv == TypeOK /\ NumbersAreUnique /\ UnusedAhead /\ SavedEpochs

(* A record under an unused number leaves every number used at most once.    *)
LEMMA WriteOnce ==
    ASSUME TypeOK, NumbersAreUnique, NEW type, NEW e \in Epochs, NEW q \in Seqs,
           Write(type, e, q), written[<<e, q>>] = 0
    PROVE  /\ NumbersAreUnique'
           /\ \A n \in Epochs \X Seqs : n # <<e, q>> => written'[n] = written[n]
<1>1. written' = [written EXCEPT ![<<e, q>>] = 1]
  BY DEF Write, TypeOK
<1>2. \A n \in Epochs \X Seqs : written'[n] = IF n = <<e, q>> THEN 1 ELSE written[n]
  BY <1>1 DEF TypeOK
<1> QED
  BY <1>2 DEF NumbersAreUnique

(* The writer's invariant is kept by every step.                             *)
LEMMA WriterInvStep ==
    ASSUME WriterInv, [Next]_vars
    PROVE  WriterInv'
<1> DEFINE Message == [type: Kinds \cup {"ccs"}, epoch: Epochs]
<1>0. TypeOK /\ NumbersAreUnique /\ UnusedAhead /\ SavedEpochs
  BY DEF WriterInv
<1>t. TypeOK'
  BY <1>0, WriterType, ReaderType DEF Next, TypeOK, Flight, vars, wVars, rVars, queues, hsVars
<1>r. /\ wEpoch \in Epochs /\ writeSeq \in Nat /\ lastSeq \in Nat /\ sent \in Seq(Message)
      /\ wNext \in Nat /\ Epochs \subseteq Nat /\ Seqs \subseteq Nat
      /\ wEpoch \in Nat /\ DOMAIN sent = 1 .. Len(sent) /\ Len(sent) \in Nat
  BY <1>0, FlightShape DEF TypeOK, Epochs, Seqs
<1>n. ASSUME NEW n \in Epochs \X Seqs PROVE n[1] \in Nat /\ n[2] \in Nat
  BY <1>r
<1>a. ASSUME NEW m \in Message, sent' = Append(sent, m)
      PROVE  /\ DOMAIN sent' = 1 .. Len(sent) + 1
             /\ \A i \in DOMAIN sent' : sent'[i] = IF i \in DOMAIN sent THEN sent[i] ELSE m
  BY <1>r, <1>a
<1>s. ASSUME UNCHANGED <<wEpoch, writeSeq, lastSeq, sent, written, wNext>> PROVE WriterInv'
  BY <1>0, <1>t, <1>s DEF WriterInv, NumbersAreUnique, UnusedAhead, SavedEpochs
<1>w. ASSUME writeSeq \in Seqs, NEW type, Write(type, wEpoch, writeSeq),
             writeSeq' = writeSeq + 1, UNCHANGED <<wEpoch, lastSeq>>
      PROVE  NumbersAreUnique' /\ UnusedAhead'
  <2>1. written[<<wEpoch, writeSeq>>] = 0
    BY <1>0, <1>r, <1>w DEF UnusedAhead
  <2>2. /\ NumbersAreUnique'
        /\ \A n \in Epochs \X Seqs : n # <<wEpoch, writeSeq>> => written'[n] = written[n]
    BY <1>0, <1>r, <1>w, <2>1, WriteOnce
  <2>3. UnusedAhead'
    BY <1>0, <1>r, <1>n, <1>w, <2>2 DEF UnusedAhead
  <2> QED
    BY <2>2, <2>3
<1>1. CASE SendMessage
  <2> DEFINE m == [type |-> Flight[wNext], epoch |-> wEpoch]
  <2>1. m \in Message /\ m.type # "ccs" /\ m.epoch = wEpoch
    BY <1>0, <1>1, <1>r, FlightShape DEF SendMessage, TypeOK, Kinds
  <2>2. NumbersAreUnique' /\ UnusedAhead'
    BY <1>1, <1>w DEF SendMessage
  <2>3. SavedEpochs'
    <3>1. CASE StartsFlight
      <4>1. sent' = <<m>>
        BY <1>1, <3>1 DEF SendMessage, Buffered
      <4> QED
        BY <1>1, <2>1, <4>1 DEF SendMessage, SavedEpochs
    <3>2. CASE ~StartsFlight
      <4>1. wNext > 2 /\ sent' = Append(sent, m) /\ wEpoch' = wEpoch
        BY <1>0, <1>1, <1>r, <3>2, FlightShape DEF SendMessage, Buffered, StartsFlight, TypeOK
      <4> QED
        BY <1>0, <1>a, <1>r, <2>1, <4>1 DEF SavedEpochs
    <3> QED
      BY <3>1, <3>2
  <2> QED
    BY <1>t, <2>2, <2>3 DEF WriterInv
<1>2. CASE SendChangeCipherSpec
  <2> DEFINE m == [type |-> "ccs", epoch |-> wEpoch]
  <2>1. /\ writeSeq \in Seqs /\ Write("ccs", wEpoch, writeSeq)
        /\ sent' = Append(sent, m) /\ lastSeq' = writeSeq + 1 /\ writeSeq' = 0
        /\ wEpoch' = wEpoch + 1 /\ wNext' = wNext
        /\ \A i \in DOMAIN sent : sent[i].type # "ccs"
    BY <1>2 DEF SendChangeCipherSpec, CcsIsNext
  <2>2. wNext > 2
    <3>1. wNext \in 1 .. Len(Flight) /\ Flight[wNext] = "finished"
      BY <1>0, <1>2, FlightShape DEF SendChangeCipherSpec, CcsIsNext, TypeOK
    <3> QED
      BY <1>0, <3>1, FlightShape DEF TypeOK
  <2>3. \A i \in DOMAIN sent : sent[i].epoch = wEpoch
    BY <1>0, <2>1, <2>2 DEF SavedEpochs
  <2>4. written[<<wEpoch, writeSeq>>] = 0
    BY <1>0, <1>r, <2>1 DEF UnusedAhead
  <2>5. /\ NumbersAreUnique'
        /\ \A n \in Epochs \X Seqs : n # <<wEpoch, writeSeq>> => written'[n] = written[n]
    BY <1>0, <1>r, <2>1, <2>4, WriteOnce
  <2>6. UnusedAhead'
    BY <1>0, <1>r, <1>n, <2>1, <2>5 DEF UnusedAhead
  <2>7. SavedEpochs'
    <3>1. m \in Message /\ m.type = "ccs" /\ m.epoch = wEpoch
      BY <1>r
    <3>2. \A i \in DOMAIN sent' : sent'[i].epoch = wEpoch
      BY <1>a, <2>1, <2>3, <3>1
    <3>3. Len(sent) + 1 \in DOMAIN sent' /\ sent'[Len(sent) + 1].type = "ccs"
      BY <1>a, <1>r, <2>1, <3>1
    <3>4. wEpoch = wEpoch' - 1
      BY <1>r, <2>1
    <3> QED
      BY <3>2, <3>3, <3>4 DEF SavedEpochs
  <2> QED
    BY <1>t, <2>5, <2>6, <2>7 DEF WriterInv
<1>3. CASE ClientDone
  <2>1. /\ DOMAIN sent' = {}
        /\ UNCHANGED <<wEpoch, writeSeq, lastSeq, written, wNext>>
    BY <1>3 DEF ClientDone
  <2> QED
    BY <1>0, <1>t, <2>1 DEF WriterInv, NumbersAreUnique, UnusedAhead, SavedEpochs
<1>4. CASE SendData
  <2>1. NumbersAreUnique' /\ UnusedAhead'
    BY <1>4, <1>w DEF SendData
  <2> QED
    BY <1>0, <1>4, <1>t, <2>1 DEF SendData, WriterInv, SavedEpochs
<1>5. CASE WriterRenegotiates
  <2>1. wNext' = 1 /\ UNCHANGED <<wEpoch, writeSeq, lastSeq, sent, written>>
    BY <1>5 DEF WriterRenegotiates
  <2> QED
    BY <1>0, <1>t, <2>1 DEF WriterInv, NumbersAreUnique, UnusedAhead, SavedEpochs
<1>6. CASE StartRetransmit
  BY <1>6, <1>s DEF StartRetransmit
<1>7. CASE RetransmitMessage
  <2> DEFINE m == sent[resend]
  <2>1. resend \in DOMAIN sent /\ m \in Message
    <3>1. resend \in 1 .. Len(sent)
      BY <1>0, <1>7, <1>r DEF RetransmitMessage, TypeOK
    <3> QED
      BY <1>r, <3>1, ElementOfSequence
  <2>2. m.epoch \in {wEpoch, wEpoch - 1}
    BY <1>0, <2>1 DEF SavedEpochs
  <2>3. UNCHANGED <<wEpoch, sent, wNext>>
    BY <1>7 DEF RetransmitMessage
  <2>4. SavedEpochs'
    BY <1>0, <2>3 DEF SavedEpochs
  <2>5. CASE m.epoch = wEpoch
    <3>1. /\ writeSeq \in Seqs /\ Write(m.type, wEpoch, writeSeq)
          /\ writeSeq' = writeSeq + 1 /\ UNCHANGED <<wEpoch, lastSeq>>
      BY <1>7, <1>r, <2>5 DEF RetransmitMessage, SavedNumbers
    <3> QED
      BY <1>t, <1>w, <2>4, <3>1 DEF WriterInv
  <2>6. CASE m.epoch = wEpoch - 1
    <3>1. /\ lastSeq \in Seqs /\ Write(m.type, wEpoch - 1, lastSeq)
          /\ lastSeq' = lastSeq + 1 /\ UNCHANGED <<wEpoch, writeSeq>>
      BY <1>7, <1>r, <2>6 DEF RetransmitMessage, SavedNumbers
    <3>2. wEpoch - 1 \in Epochs
      BY <2>1, <2>6
    <3>3. written[<<wEpoch - 1, lastSeq>>] = 0
      BY <1>0, <1>r, <3>1, <3>2 DEF UnusedAhead
    <3>4. /\ NumbersAreUnique'
          /\ \A n \in Epochs \X Seqs : n # <<wEpoch - 1, lastSeq>> => written'[n] = written[n]
      BY <1>0, <1>r, <3>1, <3>2, <3>3, WriteOnce
    <3>5. UnusedAhead'
      BY <1>0, <1>r, <1>n, <3>1, <3>4 DEF UnusedAhead
    <3> QED
      BY <1>t, <2>4, <3>4, <3>5 DEF WriterInv
  <2> QED
    BY <2>2, <2>5, <2>6
<1>8. CASE ReaderNext
  <2>1. UNCHANGED wVars
    BY <1>8 DEF ReaderNext, ProcessBuffered, GetProcessed, GetRecord, BufferNextEpoch, GetHeldData,
         HoldData, ReadData, ReadChangeCipherSpec, ReadMessage, ReadEarlyMessage, Reenter,
         ReaderRenegotiates
  <2> QED
    BY <1>s, <2>1 DEF wVars
<1>9. CASE UNCHANGED vars
  BY <1>s, <1>9 DEF vars, wVars
<1> QED
  BY <1>1, <1>2, <1>3, <1>4, <1>5, <1>6, <1>7, <1>8, <1>9 DEF Next, WriterNext

LEMMA InitWriterInv == Init => WriterInv
<1> SUFFICES ASSUME Init PROVE NumbersAreUnique /\ UnusedAhead /\ SavedEpochs
  BY InitType DEF WriterInv
<1>1. \A n \in Epochs \X Seqs : written[n] = 0
  BY DEF Init
<1>2. DOMAIN sent = {}
  BY DEF Init
<1> QED
  BY <1>1, <1>2 DEF NumbersAreUnique, UnusedAhead, SavedEpochs

(* A writer never uses an epoch and sequence number twice, also when it goes *)
(* back to the epoch before to retransmit.                                   *)
THEOREM NumbersAreUsedOnce == Spec => []NumbersAreUnique
<1>1. Init => WriterInv
  BY InitWriterInv
<1>2. WriterInv /\ [Next]_vars => WriterInv'
  BY WriterInvStep
<1>3. WriterInv => NumbersAreUnique
  BY DEF WriterInv
<1> QED
  BY <1>1, <1>2, <1>3, PTL DEF Spec

-----------------------------------------------------------------------------
(* No data is read before the Finished of its epoch.                         *)

(* The records a reader took are of an epoch it has entered, and it has read *)
(* the Finished of that epoch unless it is between the two.                  *)
EpochIsVerified ==
    /\ finished <= rEpoch
    /\ ~ccs => finished = rEpoch
    /\ rr # None => rr.epoch <= rEpoch
    /\ \A r \in processed \cup appData : r.epoch <= rEpoch

OrderInv == ReaderInv /\ DataFollowsFinished /\ EpochIsVerified

LEMMA OrderInvStep ==
    ASSUME OrderInv, [Next]_vars
    PROVE  OrderInv'
<1>0. TypeOK /\ WaitingIsNew /\ DataFollowsFinished /\ EpochIsVerified
  BY DEF OrderInv, ReaderInv
<1>t. ReaderInv'
  BY ReaderInvStep DEF OrderInv
<1>r. /\ rEpoch \in Nat /\ finished \in Nat /\ delivered \subseteq Records
      /\ processed \subseteq Records /\ appData \subseteq Records
      /\ net \subseteq Records /\ unprocessed \subseteq Records
      /\ \A r \in Records : r.epoch \in Nat
  BY <1>0 DEF TypeOK, Records, Epochs
<1>s. ASSUME UNCHANGED <<ccs, finished, rEpoch, rr, processed, appData, delivered>> PROVE OrderInv'
  BY <1>0, <1>t, <1>s DEF OrderInv, DataFollowsFinished, EpochIsVerified
(* A step that only moves records between the queues and rrec.               *)
<1>m. ASSUME UNCHANGED <<ccs, finished, rEpoch, delivered>>,
             rr' # None => rr'.epoch <= rEpoch,
             \A r \in processed' \cup appData' : r.epoch <= rEpoch
      PROVE  OrderInv'
  BY <1>0, <1>t, <1>m DEF OrderInv, DataFollowsFinished, EpochIsVerified
(* A step of the state machine, in an epoch that stays.                      *)
<1>h. ASSUME UNCHANGED <<rEpoch, processed, appData, delivered>>, rr' = None,
             UNCHANGED <<ccs, finished>> \/ (ccs' = FALSE /\ finished' = rEpoch)
      PROVE  OrderInv'
  <2>1. finished' >= finished /\ finished' <= rEpoch /\ (~ccs' => finished' = rEpoch)
    BY <1>0, <1>r, <1>h DEF EpochIsVerified
  <2>2. DataFollowsFinished'
    BY <1>0, <1>r, <1>h, <2>1 DEF DataFollowsFinished, EpochIsVerified
  <2> QED
    BY <1>0, <1>h, <1>t, <2>1, <2>2 DEF OrderInv, EpochIsVerified
<1>i. ASSUME NEW message, Handle(message)
      PROVE  UNCHANGED <<ccs, finished>> \/ (ccs' = FALSE /\ finished' = rEpoch)
  BY <1>i DEF Handle
<1>1. CASE WriterNext /\ UNCHANGED rVars
  BY <1>s, <1>1 DEF rVars, queues, hsVars
<1>2. CASE ProcessBuffered
  <2>1. PICK r \in unprocessed : processed' = Inserted(processed, r)
    BY <1>2 DEF ProcessBuffered, First
  <2>2. r.epoch = rEpoch
    BY <1>0, <1>2, <1>r DEF ProcessBuffered, Draining, WaitingIsNew
  <2>3. processed' \subseteq processed \cup {r}
    BY <2>1, InsertedIsSubset
  <2> QED
    BY <1>0, <1>2, <1>m, <1>r, <2>2, <2>3 DEF ProcessBuffered, hsVars, EpochIsVerified
<1>3. CASE GetProcessed
  <2>1. rr' \in processed /\ processed' \subseteq processed
    BY <1>3 DEF GetProcessed, First
  <2> QED
    BY <1>0, <1>3, <1>m, <2>1 DEF GetProcessed, hsVars, EpochIsVerified
<1>4. CASE GetRecord
  <2>1. rr'.epoch = rEpoch
    BY <1>4 DEF GetRecord, IsCurrent
  <2> QED
    BY <1>0, <1>4, <1>m, <1>r, <2>1 DEF GetRecord, hsVars, EpochIsVerified
<1>5. CASE BufferNextEpoch
  BY <1>5, <1>s DEF BufferNextEpoch, hsVars
<1>6. CASE GetHeldData
  <2>1. rr' \in appData /\ appData' \subseteq appData
    BY <1>6 DEF GetHeldData, First
  <2> QED
    BY <1>0, <1>6, <1>m, <2>1 DEF GetHeldData, hsVars, EpochIsVerified
<1>7. CASE HoldData
  <2>1. rr # None /\ appData' \subseteq appData \cup {rr} /\ rr' = None
    BY <1>7, InsertedIsSubset DEF HoldData
  <2> QED
    BY <1>0, <1>7, <1>m, <2>1 DEF HoldData, hsVars, EpochIsVerified
<1>8. CASE ReadData
  <2>1. rr # None /\ ~ccs
    BY <1>8 DEF ReadData, AwaitsFinished, None
  <2>2. rr.epoch <= finished
    BY <1>0, <2>1 DEF EpochIsVerified
  <2>3. /\ delivered' = delivered \cup {rr} /\ rr' = None
        /\ UNCHANGED <<rEpoch, processed, appData, ccs, finished>>
    BY <1>8 DEF ReadData, queues, hsVars
  <2> QED
    BY <1>0, <1>t, <2>2, <2>3 DEF OrderInv, DataFollowsFinished, EpochIsVerified
<1>9. CASE ReadChangeCipherSpec
  <2>1. /\ rr' = None /\ UNCHANGED <<finished, processed, appData, delivered>> /\ ~ccs
        /\ \/ UNCHANGED <<rEpoch, ccs>>
           \/ ccs' = TRUE /\ rEpoch' \in {rEpoch, rEpoch + 1}
    BY <1>9 DEF ReadChangeCipherSpec, queues, AwaitsFinished
  <2>2. /\ finished' <= rEpoch' /\ (~ccs' => finished' = rEpoch')
        /\ \A r \in processed' \cup appData' : r.epoch <= rEpoch'
    BY <1>0, <1>r, <2>1 DEF EpochIsVerified
  <2> QED
    BY <1>0, <1>t, <2>1, <2>2 DEF OrderInv, DataFollowsFinished, EpochIsVerified
<1>10. CASE ReadMessage
  <2>1. rr' = None /\ UNCHANGED <<rEpoch, processed, appData, delivered>>
    BY <1>10 DEF ReadMessage, queues
  <2>2. UNCHANGED <<ccs, finished>> \/ Handle(rr.type)
    BY <1>10 DEF ReadMessage, hsVars
  <2> QED
    BY <1>h, <1>i, <2>1, <2>2
<1>11. CASE ReadEarlyMessage
  <2>1. rr' = None /\ UNCHANGED <<rEpoch, processed, appData, delivered>>
    BY <1>11 DEF ReadEarlyMessage, queues
  <2>2. UNCHANGED <<ccs, finished>> \/ Handle(Flight[expected])
    BY <1>11 DEF ReadEarlyMessage
  <2> QED
    BY <1>h, <1>i, <2>1, <2>2
<1>12. CASE Reenter \/ ReaderRenegotiates
  BY <1>12, <1>s DEF Reenter, ReaderRenegotiates, queues
<1>13. CASE UNCHANGED vars
  BY <1>s, <1>13 DEF vars, rVars, queues, hsVars
<1> QED
  BY <1>1, <1>2, <1>3, <1>4, <1>5, <1>6, <1>7, <1>8, <1>9, <1>10, <1>11, <1>12, <1>13
  DEF Next, ReaderNext

(* Application data reaches the application only when the Finished of its    *)
(* epoch was read, however the network orders the two.                       *)
THEOREM DataWaitsForFinished == Spec => []DataFollowsFinished
<1>1. Init => OrderInv
  <2> SUFFICES ASSUME Init PROVE DataFollowsFinished /\ EpochIsVerified
    BY InitReaderInv DEF OrderInv
  <2> QED
    BY DEF Init, DataFollowsFinished, EpochIsVerified
<1>2. OrderInv /\ [Next]_vars => OrderInv'
  BY OrderInvStep
<1>3. OrderInv => DataFollowsFinished
  BY DEF OrderInv
<1> QED
  BY <1>1, <1>2, <1>3, PTL DEF Spec
-----------------------------------------------------------------------------
(* Data that was accepted is kept. dtls1_buffer_record refuses a record      *)
(* whose number is in the queue, whatever its epoch, so what is held has to  *)
(* be of one epoch whenever another record may be added to it.               *)

(* A number names one record on the network, and the reader has no others.   *)
NumbersName ==
    /\ \A r \in net : written[Number(r)] # 0
    /\ \A r, other \in net : Number(r) = Number(other) => r = other
    /\ unprocessed \subseteq net /\ processed \subseteq net /\ appData \subseteq net
    /\ rr # None => rr \in net

(* What is held during a handshake is of the epoch that waits for its        *)
(* Finished, and is read, or fetched and put back, before anything else.     *)
HeldIsApart ==
    /\ \A r \in unprocessed \cup processed : r.type \in Kinds
    /\ \A r \in appData : r.type \notin Kinds
    /\ \A r, other \in appData : r.seq = other.seq => r = other
    /\ rr # None /\ rr.type \notin Kinds => \A r \in appData : r.seq = rr.seq => r = rr
    /\ rState = "ok" /\ rr # None /\ rr.type \in Kinds => appData = {}
    /\ rState = "init" /\ appData # {} => ccs
    /\ rState = "init" => \A r \in appData : r.epoch = rEpoch
    /\ rState = "init" /\ rr # None /\ rr.type \notin Kinds => rr.epoch = rEpoch

KeepInv == WriterInv /\ NumbersName /\ HeldIsApart

(* Every record the writer puts on the network has a number of its own.      *)
LEMMA WriteNames ==
    ASSUME TypeOK, NumbersName, NumbersAreUnique', WriterNext, UNCHANGED rVars
    PROVE  NumbersName'
<1>1. UNCHANGED <<unprocessed, processed, appData, rr>>
  BY DEF rVars, queues
<1>2. CASE UNCHANGED <<net, written>>
  BY <1>1, <1>2 DEF NumbersName
<1>3. ASSUME NEW t, NEW e \in Epochs, NEW q \in Seqs, Write(t, e, q)
      PROVE  NumbersName'
  <2>. DEFINE r0 == [epoch |-> e, seq |-> q, type |-> t]
  <2>1. /\ net' = net \cup {r0} /\ Number(r0) = <<e, q>>
        /\ written' = [written EXCEPT ![<<e, q>>] = @ + 1]
    BY <1>3 DEF Write, Number
  <2>2. /\ written \in [Epochs \X Seqs -> Nat] /\ <<e, q>> \in Epochs \X Seqs
        /\ \A r \in net : Number(r) \in Epochs \X Seqs
    BY DEF TypeOK, Records, Number
  <2>3. written'[<<e, q>>] <= 1 /\ written'[<<e, q>>] = written[<<e, q>>] + 1
    BY <2>1, <2>2 DEF NumbersAreUnique
  <2>4. written[<<e, q>>] = 0
    BY <2>2, <2>3
  <2>. HIDE DEF r0
  <2>5. \A r \in net : Number(r) # Number(r0)
    BY <2>1, <2>4 DEF NumbersName
  <2>6. \A r \in net' : written'[Number(r)] # 0
    <3>1. \A n \in Epochs \X Seqs : n # <<e, q>> => written'[n] = written[n]
      BY <2>1, <2>2
    <3>2. written'[Number(r0)] # 0
      BY <2>1, <2>3, <2>4
    <3>. QED BY <2>1, <2>2, <2>5, <3>1, <3>2 DEF NumbersName
  <2>7. \A r, other \in net' : Number(r) = Number(other) => r = other
    BY <2>1, <2>5 DEF NumbersName
  <2>. QED BY <1>1, <2>1, <2>6, <2>7 DEF NumbersName
<1>4. wEpoch \in Epochs
  BY DEF TypeOK
<1>5. CASE SendMessage
  BY <1>3, <1>4, <1>5 DEF SendMessage
<1>6. CASE SendChangeCipherSpec
  BY <1>3, <1>4, <1>6 DEF SendChangeCipherSpec
<1>7. CASE ClientDone \/ WriterRenegotiates \/ StartRetransmit
  BY <1>2, <1>7 DEF ClientDone, WriterRenegotiates, StartRetransmit
<1>8. CASE SendData
  BY <1>3, <1>4, <1>8 DEF SendData
<1>9. CASE RetransmitMessage
  <2>1. sent[resend].epoch \in Epochs
    <3>1. /\ sent \in Seq([type: Kinds \cup {"ccs"}, epoch: Epochs]) /\ resend \in 0 .. Len(sent)
          /\ resend # 0
      BY <1>9 DEF TypeOK, RetransmitMessage
    <3>2. Len(sent) \in Nat /\ resend \in 1 .. Len(sent)
      BY <3>1
    <3>3. sent[resend] \in [type: Kinds \cup {"ccs"}, epoch: Epochs]
      BY <3>1, <3>2, ElementOfSequence
    <3> QED
      BY <3>3
  <2>2. SavedNumbers(sent[resend]) \in Seqs
        /\ Write(sent[resend].type, sent[resend].epoch, SavedNumbers(sent[resend]))
    BY <1>9 DEF RetransmitMessage
  <2> QED
    BY <1>3, <2>1, <2>2
<1> QED
  BY <1>5, <1>6, <1>7, <1>8, <1>9 DEF WriterNext

(* The state machine, between two records: what is held stays.               *)
LEMMA HandleKeeps ==
    ASSUME HeldIsApart, NEW message, Handle(message),
           rState = "init" \/ appData = {},
           rr' = None, UNCHANGED <<rEpoch, unprocessed, processed, appData>>
    PROVE  HeldIsApart'
<1>1. rState' = "init" => rState = "init" \/ appData = {}
  OBVIOUS
<1>2. rState' = "init" => ccs' = ccs
  BY DEF Handle
<1> QED
  BY <1>1, <1>2 DEF HeldIsApart

LEMMA KeepStep ==
    ASSUME KeepInv, [Next]_vars
    PROVE  KeepInv' /\ \A r \in Held \ Held' :
              r.type = "data" => r \in delivered' \/ Cardinality(appData) >= QueueMax
<1> DEFINE Kept == \A r \in Held \ Held' :
              r.type = "data" => r \in delivered' \/ Cardinality(appData) >= QueueMax
<1>0. WriterInv /\ TypeOK /\ NumbersName /\ HeldIsApart
  BY DEF KeepInv, WriterInv
<1>t. WriterInv'
  BY <1>0, WriterInvStep
<1>n. None.type = "none" /\ "none" \notin Kinds /\ "data" \notin Kinds /\ "ccs" \notin Kinds
  BY DEF None, Kinds
<1>r. /\ net \subseteq Records /\ \A r \in Records : r # None /\ r.epoch \in Epochs /\ r.seq \in Seqs
  BY <1>0 DEF TypeOK, Records, None, Types, Kinds
(* A step of the reader that takes nothing off the network                   *)
<1>s. ASSUME UNCHANGED <<net, written, unprocessed, processed, appData>>, rr' \in {rr, None}
      PROVE  NumbersName'
  BY <1>0, <1>s DEF NumbersName
<1>1. CASE WriterNext /\ UNCHANGED rVars
  <2>1. NumbersName'
    BY <1>0, <1>1, <1>t, WriteNames DEF WriterInv
  <2>2. HeldIsApart' /\ Held' = Held
    BY <1>0, <1>1 DEF HeldIsApart, Held, rVars, queues, hsVars
  <2> QED
    BY <1>t, <2>1, <2>2 DEF KeepInv
<1>2. CASE ProcessBuffered
  <2>1. PICK r \in unprocessed : processed' = Inserted(processed, r) /\ unprocessed' = unprocessed \ {r}
    BY <1>2 DEF ProcessBuffered, First
  <2>2. processed \subseteq processed' /\ processed' \subseteq processed \cup {r}
    BY <2>1 DEF Inserted
  <2>3. UNCHANGED <<net, written, appData, rr, rState, ccs, rEpoch>>
    BY <1>2 DEF ProcessBuffered, wVars, hsVars
  <2>4. NumbersName'
    BY <1>0, <2>1, <2>2, <2>3 DEF NumbersName
  <2>5. HeldIsApart'
    BY <1>0, <2>1, <2>2, <2>3 DEF HeldIsApart
  <2>6. Held \subseteq Held'
    BY <2>2, <2>3 DEF Held
  <2> QED
    BY <1>t, <2>4, <2>5, <2>6 DEF KeepInv
<1>3. CASE GetProcessed
  <2>1. PICK r \in processed : rr' = r /\ processed' = processed \ {r}
    BY <1>3 DEF GetProcessed, First
  <2>2. /\ UNCHANGED <<net, written, appData, unprocessed, rState, ccs, rEpoch>>
        /\ rr = None /\ (rState = "ok" => appData = {})
    BY <1>3 DEF GetProcessed, wVars, hsVars, Ready, HeldData
  <2>3. r \in net /\ r.type \in Kinds
    BY <1>0 DEF NumbersName, HeldIsApart
  <2>4. NumbersName'
    BY <1>0, <2>1, <2>2, <2>3 DEF NumbersName
  <2>5. HeldIsApart'
    BY <1>0, <2>1, <2>2, <2>3 DEF HeldIsApart
  <2>6. Held \subseteq Held' \cup {None}
    BY <2>1, <2>2 DEF Held
  <2> QED
    BY <1>n, <1>t, <2>4, <2>5, <2>6 DEF KeepInv
<1>4. CASE GetRecord
  <2>1. PICK r \in net : rr' = r /\ r.epoch = rEpoch
    BY <1>4 DEF GetRecord, IsCurrent
  <2>2. /\ UNCHANGED <<net, written, appData, unprocessed, processed, rState, ccs, rEpoch>>
        /\ rr = None /\ rState # "failed" /\ (rState = "ok" => appData = {})
    BY <1>4 DEF GetRecord, wVars, hsVars, Ready, HeldData
  <2>3. NumbersName'
    BY <1>0, <2>1, <2>2 DEF NumbersName
  <2>4. rState = "init" => \A other \in appData : other.seq = r.seq => other = r
    BY <1>0, <2>1 DEF NumbersName, HeldIsApart, Number
  <2>5. rState = "init" \/ rState = "ok"
    BY <1>0, <2>2 DEF TypeOK
  <2>6. HeldIsApart'
    BY <1>0, <2>1, <2>2, <2>4, <2>5 DEF HeldIsApart
  <2>7. Held \subseteq Held' \cup {None}
    BY <2>1, <2>2 DEF Held
  <2> QED
    BY <1>n, <1>t, <2>3, <2>6, <2>7 DEF KeepInv
<1>5. CASE BufferNextEpoch
  <2>1. PICK r \in net : r.type \in Kinds /\ unprocessed' = Inserted(unprocessed, r)
    BY <1>5 DEF BufferNextEpoch, IsNextEpoch
  <2>2. UNCHANGED <<net, written, appData, processed, rr, rState, ccs, rEpoch>>
    BY <1>5 DEF BufferNextEpoch, wVars, hsVars
  <2>3. unprocessed' \subseteq unprocessed \cup {r}
    BY <2>1 DEF Inserted
  <2>4. NumbersName'
    BY <1>0, <2>1, <2>2, <2>3 DEF NumbersName
  <2>5. HeldIsApart'
    BY <1>0, <2>1, <2>2, <2>3 DEF HeldIsApart
  <2>6. Held = Held'
    BY <2>2 DEF Held
  <2> QED
    BY <1>t, <2>4, <2>5, <2>6 DEF KeepInv
<1>6. CASE GetHeldData
  <2>1. PICK r \in appData : rr' = r /\ appData' = appData \ {r}
    BY <1>6 DEF GetHeldData, First
  <2>2. /\ UNCHANGED <<net, written, unprocessed, processed, rState, ccs, rEpoch>>
        /\ rr = None /\ rState = "ok"
    BY <1>6 DEF GetHeldData, wVars, hsVars, HeldData
  <2>3. NumbersName'
    BY <1>0, <2>1, <2>2 DEF NumbersName
  <2>4. HeldIsApart'
    BY <1>0, <2>1, <2>2 DEF HeldIsApart
  <2>5. Held \subseteq Held' \cup {None}
    BY <2>1, <2>2 DEF Held
  <2> QED
    BY <1>n, <1>t, <2>3, <2>4, <2>5 DEF KeepInv
<1>7. CASE HoldData
  <2>1. /\ rr # None /\ rState # "failed" /\ ccs /\ rr.type \notin Kinds
        /\ appData' = Inserted(appData, rr) /\ rr' = None
        /\ UNCHANGED <<net, written, unprocessed, processed, rState, ccs, rEpoch>>
    BY <1>7 DEF HoldData, AwaitsFinished, wVars, hsVars
  <2>2. \/ appData' = appData /\ (Cardinality(appData) >= QueueMax \/ rr \in appData)
        \/ appData' = appData \cup {rr} /\ \A other \in appData : other.seq # rr.seq
    <3>1. \A other \in appData : other.seq = rr.seq => other = rr
      BY <1>0, <2>1 DEF HeldIsApart
    <3> QED
      BY <2>1, <3>1 DEF Inserted
  <2>3. NumbersName'
    BY <1>0, <2>1, <2>2 DEF NumbersName
  <2>4. HeldIsApart'
    BY <1>0, <2>1, <2>2 DEF HeldIsApart
  <2>5. \A r \in Held \ Held' : Cardinality(appData) >= QueueMax
    BY <2>1, <2>2 DEF Held
  <2> QED
    BY <1>t, <2>3, <2>4, <2>5 DEF KeepInv
<1>8. CASE ReadData
  <2>1. /\ delivered' = delivered \cup {rr} /\ rr' = None
        /\ UNCHANGED <<net, written, unprocessed, processed, appData, rState, ccs, rEpoch>>
    BY <1>8 DEF ReadData, wVars, hsVars, queues
  <2>2. HeldIsApart'
    BY <1>0, <2>1 DEF HeldIsApart
  <2>3. Held \subseteq Held' \cup {rr}
    BY <2>1 DEF Held
  <2> QED
    BY <1>s, <1>t, <2>1, <2>2, <2>3 DEF KeepInv
<1>9. CASE ReadChangeCipherSpec
  <2>1. /\ rr' = None /\ rr.type = "ccs" /\ ~ccs
        /\ UNCHANGED <<net, written, unprocessed, processed, appData>>
        /\ rState' \in {rState, "failed"} /\ rState # "failed"
    BY <1>9 DEF ReadChangeCipherSpec, AwaitsFinished, wVars, queues
  <2>2. rState' = "init" => appData = {}
    BY <1>0, <2>1 DEF HeldIsApart
  <2>3. HeldIsApart'
    BY <1>0, <2>1, <2>2 DEF HeldIsApart
  <2>4. Held \subseteq Held' \cup {rr}
    BY <2>1 DEF Held
  <2> QED
    BY <1>s, <1>t, <2>1, <2>3, <2>4 DEF KeepInv
<1>10. CASE ReadMessage
  <2>1. /\ rr' = None /\ rr.type \in Kinds /\ rState # "failed"
        /\ UNCHANGED <<net, written, unprocessed, processed, appData, rEpoch>>
    BY <1>10 DEF ReadMessage, wVars, queues
  <2>2. rState = "init" \/ appData = {}
    BY <1>0, <1>n, <2>1 DEF HeldIsApart, TypeOK
  <2>3. \/ UNCHANGED <<rState, ccs>> \/ Handle(rr.type)
        \/ rState' = "init" /\ ccs' = ccs
    BY <1>10 DEF ReadMessage, hsVars
  <2>4. HeldIsApart'
    <3>1. CASE Handle(rr.type)
      BY <1>0, <2>1, <2>2, <3>1, HandleKeeps
    <3>2. CASE UNCHANGED <<rState, ccs>> \/ (rState' = "init" /\ ccs' = ccs)
      BY <1>0, <2>1, <2>2, <3>2 DEF HeldIsApart
    <3> QED
      BY <2>3, <3>1, <3>2
  <2>5. Held \subseteq Held' \cup {rr}
    BY <2>1 DEF Held
  <2> QED
    BY <1>n, <1>s, <1>t, <2>1, <2>4, <2>5 DEF KeepInv
<1>11. CASE ReadEarlyMessage
  <2>1. /\ rr' = None /\ rr = None /\ rState = "init"
        /\ UNCHANGED <<net, written, unprocessed, processed, appData, rEpoch>>
        /\ \/ rState' = "failed"
           \/ Handle(Flight[expected])
    BY <1>11 DEF ReadEarlyMessage, EarlyReady, wVars, queues
  <2>2. HeldIsApart'
    <3>1. CASE Handle(Flight[expected])
      BY <1>0, <2>1, <3>1, HandleKeeps
    <3>2. CASE rState' = "failed"
      BY <1>0, <2>1, <3>2 DEF HeldIsApart
    <3> QED
      BY <2>1, <3>1, <3>2
  <2>3. Held = Held'
    BY <2>1 DEF Held
  <2> QED
    BY <1>s, <1>t, <2>1, <2>2, <2>3 DEF KeepInv
<1>12. CASE Reenter
  <2>1. UNCHANGED <<net, written, unprocessed, processed, appData, rEpoch, rr, rState, ccs>>
    BY <1>12 DEF Reenter, wVars, queues
  <2>2. HeldIsApart' /\ Held = Held'
    BY <1>0, <2>1 DEF HeldIsApart, Held
  <2> QED
    BY <1>s, <1>t, <2>1, <2>2 DEF KeepInv
<1>13. CASE ReaderRenegotiates
  <2>1. /\ UNCHANGED <<net, written, unprocessed, processed, appData, rEpoch, rr, ccs>>
        /\ rr = None /\ appData = {} /\ rState' = "init"
    BY <1>13 DEF ReaderRenegotiates, wVars, queues, Ready, HeldData
  <2>2. HeldIsApart' /\ Held = Held'
    BY <1>0, <2>1 DEF HeldIsApart, Held
  <2> QED
    BY <1>s, <1>t, <2>1, <2>2 DEF KeepInv
<1>14. CASE UNCHANGED vars
  <2>1. UNCHANGED <<net, written, unprocessed, processed, appData, rEpoch, rr, rState, ccs>>
    BY <1>14 DEF vars, wVars, rVars, queues, hsVars
  <2>2. HeldIsApart' /\ Held = Held'
    BY <1>0, <2>1 DEF HeldIsApart, Held
  <2> QED
    BY <1>s, <1>t, <2>1, <2>2 DEF KeepInv
<1> QED
  BY <1>1, <1>2, <1>3, <1>4, <1>5, <1>6, <1>7, <1>8, <1>9, <1>10, <1>11, <1>12, <1>13, <1>14
  DEF Next, ReaderNext

(* Application data that passed the replay check is read or still held, in   *)
(* rrec or in one of the queues, unless buffered_app_data was at its limit;  *)
(* in particular the two records of one sequence number that                 *)
(* dtls1_buffer_record would not keep apart never meet there.                *)
THEOREM AcceptedDataIsKept == Spec => DataIsKept
<1> DEFINE Kept == \A r \in Held \ Held' :
              r.type = "data" => r \in delivered' \/ Cardinality(appData) >= QueueMax
<1>1. Init => KeepInv
  <2> SUFFICES ASSUME Init PROVE WriterInv /\ NumbersName /\ HeldIsApart
    BY DEF KeepInv
  <2>1. WriterInv
    BY InitWriterInv
  <2> QED
    BY <2>1 DEF Init, NumbersName, HeldIsApart
<1>2. KeepInv /\ [Next]_vars => KeepInv' /\ [Kept]_vars
  BY KeepStep
<1> QED
  BY <1>1, <1>2, PTL DEF Spec, DataIsKept
=============================================================================

------------------------------- MODULE ErrorList -------------------------------
(***************************************************************************)
(* What err.h promises of a thread's error queue: a list of bounded        *)
(* length whose least recent error is dropped when it is full, read from   *)
(* its least recent end, with marks to go back to.                         *)
(***************************************************************************)
EXTENDS Naturals, Sequences

CONSTANTS ErrorCode, Capacity

VARIABLES queue, reply

NewError(c) == [code |-> c, marked |-> FALSE]

ListInit == queue = <<>> /\ reply = <<"none", 0>>

Returns(call, r) == reply' = <<call, r>>
Fails(call) == queue = <<>> /\ queue' = queue /\ Returns(call, 0)

(* "adds an error to the error queue, dropping the least recent error if   *)
(* neccessary for space reasons".                                          *)
ListPut == \E c \in ErrorCode :
  /\ queue' = Append(IF Len(queue) = Capacity THEN Tail(queue) ELSE queue, NewError(c))
  /\ Returns("put", 1)

ListGet ==
  \/ Fails("get")
  \/ queue # <<>> /\ queue' = Tail(queue) /\ Returns("get", queue[1].code)

(* Peeking removes nothing, but taking the data of an error forgets its    *)
(* mark; so does adding data to it.                                        *)
ListPeek(call, i) ==
  \/ Fails(call)
  \/ /\ queue # <<>>
     /\ queue' \in {queue, [queue EXCEPT ![i].marked = FALSE]}
     /\ Returns(call, queue[i].code)

ListAddData ==
  \/ Fails("add")
  \/ /\ queue # <<>>
     /\ queue' = [queue EXCEPT ![Len(queue)].marked = FALSE]
     /\ Returns("add", queue[Len(queue)].code)

ListClear == queue' = <<>> /\ Returns("clear", 1)

ListMark ==
  \/ Fails("mark")
  \/ /\ queue # <<>>
     /\ queue' = [queue EXCEPT ![Len(queue)].marked = TRUE]
     /\ Returns("mark", 1)

(* "removes errors from the most recent to the least recent until (and     *)
(* not including) a marked error".                                         *)
ListPop ==
  \/ /\ \A i \in DOMAIN queue : ~queue[i].marked
     /\ queue' = <<>> /\ Returns("pop", 0)
  \/ \E m \in DOMAIN queue :
       /\ queue[m].marked
       /\ \A i \in (m + 1)..Len(queue) : ~queue[i].marked
       /\ queue' = [SubSeq(queue, 1, m) EXCEPT ![m].marked = FALSE]
       /\ Returns("pop", 1)

ListNext ==
  \/ ListPut \/ ListGet \/ ListPeek("peek", 1) \/ ListPeek("last", Len(queue))
  \/ ListAddData \/ ListClear \/ ListMark \/ ListPop

ListSpec == ListInit /\ [][ListNext]_<<queue, reply>>
=============================================================================

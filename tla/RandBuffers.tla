------------------------------ MODULE RandBuffers ------------------------------
(***************************************************************************)
(* RAND_bytes of crypto/rand/urandom.c with buffering: a list of buffers   *)
(* of random bytes shared by the threads of a process, taken off the list  *)
(* to be refilled outside the lock, and copied by fork.                    *)
(*                                                                         *)
(* A byte is named by the read that drew it from /dev/urandom and its      *)
(* place in the buffer.  A fork copies the list but only the thread that   *)
(* forks; what another thread had taken off the list is lost in the child. *)
(* Process IDs are not reused: the comment at the head of urandom.c says   *)
(* that a reused one can make a process take its ancestor's buffer for its *)
(* own.  RAND_cleanup comes between calls (rand.h: "not safe if other      *)
(* threads might still be calling RAND_bytes").                            *)
(***************************************************************************)
EXTENDS Naturals, Sequences

CONSTANTS
  RandThread,     \* the threads of the first process
  Processes,      \* process IDs; 2 is the first, 1 is init
  PerBuf,         \* rand_bytes_per_buf
  Large,          \* BUF_SIZE / 2, more than that is read directly
  MaxDraws,       \* a bound on reads of /dev/urandom
  MaxRequest      \* a bound on what one call asks for

ASSUME RandAssumption ==
  /\ PerBuf \in Nat \ {0} /\ Large \in 1..PerBuf
  /\ MaxDraws \in Nat /\ MaxRequest \in Nat
  /\ 2 \in Processes /\ Processes \subseteq Nat \ {0, 1}

VARIABLES
  list,       \* list[p]: the buffers at list_head in process p, from its head
  parent,     \* parent[p]: what getppid says in p; 0 before p exists
  call,       \* call[p][t]: where thread t of process p is in RAND_bytes
  draws,      \* reads of /dev/urandom so far
  given,      \* every byte some caller was given
  twice       \* some byte was given to two callers

randVars == <<list, parent, call, draws, given, twice>>

Empty(p, pp) == [batch |-> 0, used |-> PerBuf, pid |-> p, ppid |-> pp]
Idle == [at |-> "idle"]
Alive(p) == parent[p] # 0
Calls(p, t, to) == call' = [call EXCEPT ![p][t] = to]

(* memcpy of n bytes out of buffer b.                                      *)
Bytes(b, n) == {<<b.batch, i>> : i \in b.used + 1 .. b.used + n}
Gives(bytes) ==
  /\ given' = given \union bytes
  /\ twice' = (twice \/ bytes \intersect given # {})

(* "tested against the current PID each time": the IDs are asked for once  *)
(* in a call.                                                              *)
OwnUntested(b, p, pp) == TRUE               \* fault: the PID is not tested
Own(b, p, pp) == b.pid = p /\ b.ppid = pp
------------------------------------------------------------------------------
RandInit ==
  /\ list = [p \in Processes |-> <<>>]
  /\ parent = [p \in Processes |-> IF p = 2 THEN 1 ELSE 0]
  /\ call = [p \in Processes |-> [t \in RandThread |-> Idle]]
  /\ draws = 0 /\ given = {} /\ twice = FALSE

(* A request for more than half a buffer, or without buffering.            *)
Direct(p, t, n) ==
  /\ call[p][t] = Idle /\ n > Large /\ draws < MaxDraws
  /\ draws' = draws + 1
  /\ Gives({<<draws, i>> : i \in 1..n})
  /\ UNCHANGED <<list, parent, call>>

(* The first locked section: the buffer at the head serves the request, or *)
(* is taken off the list.  The loop drops buffers from before a fork, each *)
(* in a locked section of its own.                                         *)
ServedUnmarked(p, n) ==                     \* fault: used is not advanced
  /\ Gives(Bytes(list[p][1], n))
  /\ UNCHANGED list
Served(p, n) ==
  /\ Gives(Bytes(list[p][1], n))
  /\ list' = [list EXCEPT ![p][1].used = @ + n]

Suffices(p, pp, n) ==
  /\ list[p] # <<>> /\ Own(list[p][1], p, pp)
  /\ PerBuf - list[p][1].used >= n

FromHead(p, pp, t, n) ==
  /\ Suffices(p, pp, n) /\ Served(p, n)
  /\ Calls(p, t, Idle)
  /\ UNCHANGED <<parent, draws>>

TookOffAgain(p) == list' = list                \* fault: it stays on the list
TookOff(p) == list' = [list EXCEPT ![p] = Tail(@)]

TakeHead(p, pp, t, n) ==
  /\ ~Suffices(p, pp, n)
  /\ IF list[p] = <<>>
     THEN /\ Calls(p, t, [at |-> "fill", need |-> n, buf |-> Empty(p, pp)])
          /\ UNCHANGED list
     ELSE /\ TookOff(p)
          /\ Calls(p, t, IF Own(list[p][1], p, pp)
                         THEN [at |-> "fill", need |-> n, buf |-> list[p][1]]
                         ELSE [at |-> "retry", need |-> n, ppid |-> pp])
  /\ UNCHANGED <<parent, draws, given, twice>>

Serve(p, pp, t, n) == FromHead(p, pp, t, n) \/ TakeHead(p, pp, t, n)

Locked(p, t) ==
  \/ /\ call[p][t] = Idle
     /\ \E n \in 1..Large : Serve(p, parent[p], t, n)
  \/ /\ call[p][t].at = "retry"
     /\ Serve(p, call[p][t].ppid, t, call[p][t].need)

(* One round of the loop outside the lock: what is left in the buffer, and *)
(* if that empties it, a new draw.                                         *)
Fewer(a, b) == IF a <= b THEN a ELSE b
LeavesEmpty(b, todo) == b.used + todo > PerBuf  \* fault: off by one
Empties(b, todo) == b.used + todo = PerBuf

Fill(p, t) ==
  /\ call[p][t].at = "fill"
  /\ LET b == call[p][t].buf
         todo == Fewer(PerBuf - b.used, call[p][t].need)
         left == call[p][t].need - todo
     IN /\ Gives(Bytes(b, todo))
        /\ IF Empties(b, todo)
           THEN /\ draws < MaxDraws /\ draws' = draws + 1
                /\ Calls(p, t, [at |-> IF left > 0 THEN "fill" ELSE "put", need |-> left,
                                buf |-> [b EXCEPT !.batch = draws, !.used = 0]])
           ELSE /\ Calls(p, t, [at |-> "put", need |-> left,
                                buf |-> [b EXCEPT !.used = @ + todo]])
                /\ UNCHANGED draws
  /\ UNCHANGED <<list, parent>>

(* The second locked section: the buffer goes back to the head.            *)
PutBack(p, t) ==
  /\ call[p][t].at = "put"
  /\ list' = [list EXCEPT ![p] = <<call[p][t].buf>> \o @]
  /\ Calls(p, t, Idle)
  /\ UNCHANGED <<parent, draws, given, twice>>

(* Thread t forks: it is the only one of the child.                        *)
Fork(p, q, t) ==
  /\ Alive(p) /\ ~Alive(q) /\ call[p][t] = Idle
  /\ parent' = [parent EXCEPT ![q] = p]
  /\ list' = [list EXCEPT ![q] = list[p]]
  /\ UNCHANGED <<call, draws, given, twice>>

(* A process whose parent ends is a child of process 1 from then on.       *)
Orphan(p) ==
  /\ Alive(p) /\ parent[p] # 1
  /\ parent' = [parent EXCEPT ![p] = 1]
  /\ UNCHANGED <<list, call, draws, given, twice>>

Cleanup(p) ==
  /\ Alive(p) /\ list[p] # <<>> /\ \A t \in RandThread : call[p][t] = Idle
  /\ list' = [list EXCEPT ![p] = <<>>]
  /\ UNCHANGED <<parent, call, draws, given, twice>>

(* A forked process has one thread.                                        *)
RunsIn(p, t) == Alive(p) /\ (p = 2 \/ t = CHOOSE u \in RandThread : TRUE)

RandNext ==
  \/ \E p \in Processes, t \in RandThread : RunsIn(p, t) /\
       \/ \E n \in 1..MaxRequest : Direct(p, t, n)
       \/ Locked(p, t) \/ Fill(p, t) \/ PutBack(p, t)
       \/ \E q \in Processes : Fork(p, q, t)
  \/ \E p \in Processes : Orphan(p) \/ Cleanup(p)

RandSpec == RandInit /\ [][RandNext]_randVars
------------------------------------------------------------------------------
(* No random byte is given out twice, to whatever threads of whatever      *)
(* processes (urandom.c:45-50, "Threads which need random bytes grab a     *)
(* buffer from the list under a lock", "processes that fork will discard   *)
(* all the buffers filled by the parent process").                         *)
NoByteTwice == ~twice

(* A call gets every byte it asked for before its buffer goes back to the  *)
(* list (RAND_bytes, "requested").                                         *)
RequestsAreFilled ==
  \A p \in Processes, t \in RandThread :
    call[p][t].at = "put" => call[p][t].need = 0

(* What a process would serve its callers from, on the list or in the      *)
(* hands of a thread, has a draw behind every byte and is nobody else's:   *)
(* no two usable buffers have an unused byte in common.                    *)
Usable(p) ==
  {<<0, i>> : i \in {j \in DOMAIN list[p] :
                  Own(list[p][j], p, parent[p])}}
    \union {<<1, t>> : t \in {u \in RandThread : call[p][u].at \in {"fill", "put"}}}
At(p, x) == IF x[1] = 0 THEN list[p][x[2]] ELSE call[p][x[2]].buf
BuffersAreDisjoint ==
  \A p, q \in Processes : \A x \in Usable(p), y \in Usable(q) :
    LET b == At(p, x)
        c == At(q, y)
    IN  /\ b.used <= PerBuf
        /\ <<p, x>> # <<q, y>> =>
             Bytes(b, PerBuf - b.used) \intersect Bytes(c, PerBuf - c.used) = {}

(* Random bytes are given out once, in full, and from buffers that nobody  *)
(* else would serve its callers from (urandom.c:45).                       *)
RandomIsFresh == NoByteTwice /\ RequestsAreFilled /\ BuffersAreDisjoint
=============================================================================

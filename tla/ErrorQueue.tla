------------------------------ MODULE ErrorQueue ------------------------------
(***************************************************************************)
(* The error queue of one thread, crypto/err/err.c: a ring of errors in    *)
(* which top is the most recent error and bottom the place before the      *)
(* least recent one, so that one place of the ring is always unused.  An   *)
(* error can own a string, which passes to the caller that asks for it.    *)
(* Names of libraries and functions, files and lines are left out.         *)
(***************************************************************************)
EXTENDS Naturals, Sequences, FiniteSets

CONSTANTS
  ErrorCode,   \* packed errors
  NumErrors,   \* ERR_NUM_ERRORS
  Strings      \* addresses of strings that errors can own

ASSUME ErrorAssumption ==
  /\ NumErrors \in Nat \ {0, 1}
  /\ ErrorCode \subseteq Nat \ {0} /\ 0 \notin Strings

VARIABLES
  errors,      \* state->errors, a function of 0..NumErrors-1
  errTop,      \* state->top
  errBottom,   \* state->bottom
  errReply,    \* what the last call returned
  owned        \* the strings the caller was given and has not freed

errVars == <<errors, errTop, errBottom, errReply, owned>>

NoError == [packed |-> 0, data |-> 0, mark |-> FALSE]
Following(i) == (i + 1) % NumErrors
IsEmpty == errBottom = errTop
Returns(call, r) == errReply' = <<call, r>>
InErrors == {errors[i].data : i \in DOMAIN errors} \ {0}

ErrInit ==
  /\ errors = [i \in 0..(NumErrors - 1) |-> NoError]
  /\ errTop = 0 /\ errBottom = 0 /\ errReply = <<"none", 0>> /\ owned = {}

(* ERR_put_error: "bottom" moves on when "top" reaches it.                 *)
DropsNothing(top) == errBottom              \* fault: a full ring turns empty
Dropped(top) == IF top = errBottom THEN Following(errBottom) ELSE errBottom

PutError(c) ==
  LET top == Following(errTop)
  IN  /\ errTop' = top
      /\ errBottom' = Dropped(top)
      /\ errors' = [errors EXCEPT ![top] = [NoError EXCEPT !.packed = c]]
      /\ Returns("put", 1)
      /\ UNCHANGED owned

(* get_error_values.  With data, the string changes hands, and with it all *)
(* flags of the error are reset, also in a peek.                           *)
HandedKept(e) == e                          \* fault: both keep the string
Handed(e) == IF e.data = 0 THEN e ELSE [e EXCEPT !.data = 0, !.mark = FALSE]

GetErrorValues(remove, top, data) ==
  LET call == IF remove THEN "get" ELSE IF top THEN "last" ELSE "peek"
  IN
  IF IsEmpty
  THEN Returns(call, 0) /\ UNCHANGED <<errors, errTop, errBottom, owned>>
  ELSE LET i == IF top THEN errTop ELSE Following(errBottom)
           e == IF data THEN Handed(errors[i]) ELSE errors[i]
       IN  /\ Returns(call, errors[i].packed)
           /\ owned' = IF data THEN owned \union ({errors[i].data} \ {0}) ELSE owned
           /\ errors' = [errors EXCEPT ![i] = IF remove THEN NoError ELSE e]
           /\ errBottom' = IF remove THEN i ELSE errBottom
           /\ UNCHANGED errTop

GetError == \E data \in BOOLEAN : GetErrorValues(TRUE, FALSE, data)
PeekError == \E top, data \in BOOLEAN : GetErrorValues(FALSE, top, data)

(* ERR_clear_error; ERR_remove_thread_state does the same, and the next    *)
(* call of the thread starts with a new, empty ring.                       *)
ClearErrors ==
  /\ errors' = [i \in DOMAIN errors |-> NoError]
  /\ errTop' = 0 /\ errBottom' = 0 /\ Returns("clear", 1)
  /\ UNCHANGED owned

(* ERR_add_error_data, ERR_add_error_dataf: err_set_error_data frees what  *)
(* the most recent error had and sets its flags anew.  With no error, the  *)
(* string is not freed: nobody has it then.                                *)
AddData ==
  IF IsEmpty
  THEN Returns("add", 0) /\ UNCHANGED <<errors, errTop, errBottom, owned>>
  ELSE \E s \in Strings \ (InErrors \union owned) :
         /\ errors' = [errors EXCEPT ![errTop].data = s, ![errTop].mark = FALSE]
         /\ Returns("add", errors[errTop].packed)
         /\ UNCHANGED <<errTop, errBottom, owned>>

(* ERR_set_mark, ERR_pop_to_mark.                                          *)
SetMark ==
  IF IsEmpty
  THEN Returns("mark", 0) /\ UNCHANGED <<errors, errTop, errBottom, owned>>
  ELSE /\ errors' = [errors EXCEPT ![errTop].mark = TRUE]
       /\ Returns("mark", 1) /\ UNCHANGED <<errTop, errBottom, owned>>

PrecedingUnwrapped(i) == IF i = 0 THEN 0 ELSE i - 1   \* fault: 0 is the end
Preceding(i) == IF i = 0 THEN NumErrors - 1 ELSE i - 1

(* The errors from the top down to the first with a mark, or all, are      *)
(* cleared; n bounds the rounds of the loop.                               *)
Popping[n \in 0..NumErrors] ==
  [top \in 0..(NumErrors - 1) |->
     IF n = 0 \/ top = errBottom \/ errors[top].mark THEN {}
     ELSE {top} \union Popping[n - 1][Preceding(top)]]

PopToMark ==
  LET popped == Popping[NumErrors][errTop]
      top == (errTop + NumErrors - Cardinality(popped)) % NumErrors
      found == top # errBottom
  IN  /\ errTop' = top
      /\ errors' = [i \in DOMAIN errors |->
                      IF i \in popped THEN NoError
                      ELSE IF found /\ i = top THEN [errors[i] EXCEPT !.mark = FALSE]
                      ELSE errors[i]]
      /\ Returns("pop", IF found THEN 1 ELSE 0)
      /\ UNCHANGED <<errBottom, owned>>

(* The caller frees a string it was given (ERR_print_errors_cb does).      *)
FreeString == \E s \in owned :
  /\ owned' = owned \ {s}
  /\ UNCHANGED <<errors, errTop, errBottom, errReply>>

ErrNext ==
  \/ \E c \in ErrorCode : PutError(c)
  \/ GetError \/ PeekError \/ ClearErrors \/ AddData \/ SetMark \/ PopToMark
  \/ FreeString

ErrSpec == ErrInit /\ [][ErrNext]_errVars
------------------------------------------------------------------------------
(* The ring behaves as the list err.h describes.                           *)
Queued ==
  [k \in 1..((errTop + NumErrors - errBottom) % NumErrors) |->
     LET e == errors[(errBottom + k) % NumErrors]
     IN  [code |-> e.packed, marked |-> e.mark]]

List == INSTANCE ErrorList
          WITH queue <- Queued, reply <- errReply, Capacity <- NumErrors - 1
ImplementsList == List!ListSpec

(* A string belongs to one error or to the caller, so that it is freed     *)
(* once (err_clear_data and ERR_FLAG_MALLOCED).                            *)
StringsAreOwnedOnce ==
  /\ owned \intersect InErrors = {}
  /\ \A i, j \in DOMAIN errors :
       errors[i].data # 0 /\ errors[i].data = errors[j].data => i = j
=============================================================================

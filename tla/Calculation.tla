----------------------------- MODULE Calculation -----------------------------
(* Functions of the source that keep no state: a step takes arguments from *)
(* a bounded set and records what the function returns for them, and the   *)
(* invariants say what that has to be.                                     *)

VARIABLE calc   \* the function that ran, its arguments and what it returned

NotCalculated == [of |-> "none"]

(* The call of f with the arguments args, a record, returned out.          *)
Calculates(f, args, out) ==
  /\ calc = NotCalculated
  /\ calc' = [of |-> f, in |-> args, out |-> out]

Calculated(f) == calc.of = f
=============================================================================

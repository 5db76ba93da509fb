----------------------------- MODULE ResultStream -----------------------------
(***************************************************************************)
(* What a caller of `Client::do_get` is promised about the answer of one   *)
(* plan: the pieces of the result arrive in order and without gaps, and    *)
(* the call ends once, with Ok or with Err, unless the caller goes away.   *)
(*                                                                         *)
(* The promise is deliberately no stronger than the program: a plan that   *)
(* panics on the server may end the stream early with Ok.                  *)
(***************************************************************************)
EXTENDS Integers, Sequences

CONSTANT Total      \* number of result pieces the plan yields when it does not panic

VARIABLES received, \* the pieces the caller has, numbered from 1 in plan order
          outcome,  \* how the call stands
          faulted   \* TRUE once the plan has panicked

vars == <<received, outcome, faulted>>

Init ==
    /\ received = <<>>
    /\ outcome = "open"
    /\ faulted = FALSE

\* The next piece in plan order arrives.
Deliver ==
    /\ outcome = "open"
    /\ Len(received) < Total
    /\ received' = Append(received, Len(received) + 1)
    /\ UNCHANGED <<outcome, faulted>>

\* Ok: everything arrived, or the plan panicked and the caller is not told.
Finish ==
    /\ outcome = "open"
    /\ Len(received) = Total \/ faulted
    /\ outcome' = "ok"
    /\ UNCHANGED <<received, faulted>>

Fail ==
    /\ outcome = "open"
    /\ outcome' = "err"
    /\ UNCHANGED <<received, faulted>>

Leave ==
    /\ outcome = "open"
    /\ outcome' = "gone"
    /\ UNCHANGED <<received, faulted>>

Fault ==
    /\ ~faulted
    /\ faulted' = TRUE
    /\ UNCHANGED <<received, outcome>>

Next == Deliver \/ Finish \/ Fail \/ Leave \/ Fault

Spec == Init /\ [][Next]_vars
===============================================================================

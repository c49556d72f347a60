------------------------- MODULE CommissionPromise -------------------------
(***************************************************************************)
(* What settlement promises of a commission that an introducing broker is  *)
(* owed: it is paid in full, once, or not at all, and what is taken back   *)
(* of it is never more than what was paid.                                 *)
(***************************************************************************)
EXTENDS Integers

CONSTANTS Obligations, Owed

VARIABLES paid, takenBack

promise == <<paid, takenBack>>

PromiseInit ==
    /\ paid = [o \in Obligations |-> 0]
    /\ takenBack = [o \in Obligations |-> 0]

Pay(o) ==
    /\ paid[o] = 0
    /\ paid' = [paid EXCEPT ![o] = Owed[o]]
    /\ UNCHANGED takenBack

TakeBack(o) ==
    /\ \E more \in 1 .. paid[o] - takenBack[o] : takenBack' = [takenBack EXCEPT ![o] = @ + more]
    /\ UNCHANGED paid

PromiseNext == \E o \in Obligations : Pay(o) \/ TakeBack(o)

PromiseSpec == PromiseInit /\ [][PromiseNext]_promise
=============================================================================

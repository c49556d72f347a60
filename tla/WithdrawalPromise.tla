-------------------------- MODULE WithdrawalPromise --------------------------
(***************************************************************************)
(* What a withdrawal promises, whatever threads, retries, webhooks and     *)
(* reconciliation runs carry it out: its gross amount leaves the wallet    *)
(* once, when it is created; afterwards either the money really reaches    *)
(* the client and the row says so, or the wallet gets it all back and the  *)
(* money can no longer leave.  Payout implements it.                       *)
(***************************************************************************)
EXTENDS Naturals

CONSTANTS
    Withdrawals,
    Users,
    Owner,            \* Withdrawals -> Users
    AmountUsd,        \* Withdrawals -> Nat
    InitialBalance    \* Users -> Nat

VARIABLES
    fate,         \* what the platform has decided about a withdrawal
    balance,      \* the wallet of each user
    transferred   \* the withdrawals whose money has reached the client

vars == <<fate, balance, transferred>>

Fates == {"none", "held", "paid", "returned"}

Init ==
    /\ fate = [w \in Withdrawals |-> "none"]
    /\ balance = InitialBalance
    /\ transferred = {}

Hold(w) ==
    /\ fate[w] = "none"
    /\ balance[Owner[w]] >= AmountUsd[w]
    /\ fate' = [fate EXCEPT ![w] = "held"]
    /\ balance' = [balance EXCEPT ![Owner[w]] = @ - AmountUsd[w]]
    /\ UNCHANGED transferred

Transfer(w) ==
    /\ fate[w] = "held"
    /\ w \notin transferred
    /\ transferred' = transferred \cup {w}
    /\ UNCHANGED <<fate, balance>>

Pay(w) ==
    /\ fate[w] = "held"
    /\ w \in transferred
    /\ fate' = [fate EXCEPT ![w] = "paid"]
    /\ UNCHANGED <<balance, transferred>>

Return(w) ==
    /\ fate[w] = "held"
    /\ w \notin transferred
    /\ fate' = [fate EXCEPT ![w] = "returned"]
    /\ balance' = [balance EXCEPT ![Owner[w]] = @ + AmountUsd[w]]
    /\ UNCHANGED transferred

Next == \E w \in Withdrawals : Hold(w) \/ Transfer(w) \/ Pay(w) \/ Return(w)

Spec == Init /\ [][Next]_vars
=============================================================================

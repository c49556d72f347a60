----------------------------- MODULE MC_Payout -----------------------------
(* Payout on two withdrawals of one user: w1 is submitted automatically,    *)
(* w2 is above $1,000 and needs two administrators.                         *)
EXTENDS Payout

CONSTANTS w1, w2, u1, a1, a2, s1, s2, r1

MC_Owner == [w \in Withdrawals |-> u1]
MC_AmountUsd == [w \in Withdrawals |-> IF w = w1 THEN 1 ELSE 2]
MC_InitialBalance == [u \in Users |-> 3]
MC_DualApproval == {w2}
=============================================================================

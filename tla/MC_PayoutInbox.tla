-------------------------- MODULE MC_PayoutInbox --------------------------
(* One automatically submitted withdrawal, its webhooks and their replay.   *)
EXTENDS PayoutInbox

CONSTANTS w1, u1, a1, s1, r1, h1, h2, p1

MC_Owner == [w \in Withdrawals |-> u1]
MC_AmountUsd == [w \in Withdrawals |-> 1]
MC_InitialBalance == [u \in Users |-> 1]
=============================================================================

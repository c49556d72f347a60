------------------------------ MODULE MC_Wallet ------------------------------
(* One deposit of each kind, of two units; challenges cost one.             *)
EXTENDS Wallet

TwoUnits == [d \in Deposits |-> 2]
=============================================================================

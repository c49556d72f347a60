--------------------------- MODULE MC_WithdrawalOtp ---------------------------
(* One user and one route: every rule of the code is per user, and per      *)
(* route of the user.                                                       *)
EXTENDS WithdrawalOtp

CONSTANTS u1, tab1, tab2

MCInitialBalance == [u \in {u1} |-> MaxBalance]
===============================================================================

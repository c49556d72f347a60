---------------------------- MODULE MC_Challenge ----------------------------
(* A challenge of 100 whose phases ask for 8 and 5 percent.                 *)
EXTENDS Challenge

Targets == [p \in Phases |-> IF p = "PHASE_1" THEN 8 ELSE 5]
WinsAndLosses == {-6, 8}
Wins == {8}
OneCent == {1}
=============================================================================

----------------------------- MODULE MC_Trading -----------------------------
(* A small account: one lot of the symbol loses more than half of its        *)
(* balance.                                                                 *)
EXTENDS Trading

LossOnly == {-60}
=============================================================================

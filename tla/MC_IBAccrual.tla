---------------------------- MODULE MC_IBAccrual ----------------------------
(* Three IBs, of whom one refers the clients; money in quarters of a cent.  *)
EXTENDS IBAccrual

CONSTANTS a, b, c

MC_ReferredBy == [e \in Events |-> a]
MC_GlobalRate == [type \in RuleTypes |->
                    CASE type = "PER_LOT" -> 6 [] type = "SUB_IB_BUDGET" -> 7 [] OTHER -> 6]
MC_RateChanges == {<<a, "PER_LOT", 20>>, <<b, "SUB_IB_PER_LOT", 2>>}
=============================================================================

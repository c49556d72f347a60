-------------------------- MODULE MC_IBSettlement --------------------------
(* Staff of three: one asks, one reviews, one executes and recovers, with   *)
(* enough permissions left over to get in each other's way.                 *)
EXTENDS IBSettlement

CONSTANTS ana, bea, cyd

MC_Staff == {ana, bea, cyd}
MC_Submitters == {ana}
MC_Reviewers == {ana, bea}
MC_Executors == {bea, cyd}
MC_Recoverers == {cyd}
MC_References == {<<"manual", 0>>} \cup ({"obligation"} \X Obligations)
                                   \cup ({"adjustment"} \X Adjustments)
MC_Manual == <<"manual", 0>>
MC_Calculated == [o \in Obligations |-> 1]
MC_ManualRequests == {<<TRUE, 1>>}
=============================================================================

--------------------------- MODULE IBSettlement ----------------------------
(***************************************************************************)
(* From a commission that is owed to money in the wallet of an introducing *)
(* broker (IB), and back: staff approves an obligation, links it to a      *)
(* Treasury request, and a sweep notices when Treasury has executed it; an *)
(* adjustment takes a part of a credited commission back in the same way.  *)
(* Each link is one row pointing at another whose life it does not share.  *)
(*                                                                         *)
(*   simulator/ib_treasury_settlement.py   approve, link, sync, reconcile  *)
(*   simulator/ib_commission_reversal.py   adjustments                     *)
(*   simulator/ib_risk_holds.py            freeze of the IB, holds         *)
(*   simulator/tasks.py                    the reconciliation tasks        *)
(***************************************************************************)
EXTENDS Treasury, FiniteSetsExt, Functions

CONSTANTS
    Obligations,   \* primary keys of IBCommissionObligation, 1..n
    Adjustments,   \* primary keys of IBCommissionAdjustment, 1..m
    Calculated,    \* calculated_amount of each obligation, which may round to 0
    ManualRequests, \* bound: the <<debit, amount>> staff may also ask for by hand
    BatchSize      \* rows one reconciliation pass reads

NoOp == 0    \* treasury_operation IS NULL

About(kind, pk) == <<kind, pk>>

ASSUME SettlementAssumption ==
    /\ Obligations \subseteq Nat \ {0} /\ Adjustments \subseteq Nat /\ BatchSize \in Nat
    /\ IsFiniteSet(Reqs) /\ IsFiniteSet(Adjustments)
    /\ NoOp \notin Reqs
    /\ ManualRequests \subseteq BOOLEAN \X Amounts
    /\ Calculated \in [Obligations -> Amounts \cup {0}]
    /\ \A o \in Obligations : About("obligation", o) \in References \ {Manual}
    /\ \A a \in Adjustments : About("adjustment", a) \in References \ {Manual}

VARIABLES
    frozen,   \* Referral.risk_status is FROZEN
    oblig,    \* IBCommissionObligation rows, which a sweep has generated
    adj       \* IBCommissionAdjustment rows

ibVars == <<frozen, oblig, adj>>
vars == <<treasuryVars, ibVars>>

NoAdjustment == [status |-> "none", obligation |-> 0, amount |-> 0, op |-> NoOp]

TypeOK ==
    /\ TreasuryTypeOK
    /\ frozen \in BOOLEAN
    /\ oblig \in [Obligations -> [status : {"pending", "approved", "credited"},
                                  is_held : BOOLEAN, op : Reqs \cup {NoOp}]]
    /\ adj \in [Adjustments -> [status : {"none", "pending", "approved", "rejected", "executed"},
                                obligation : Obligations \cup {0}, amount : Amounts \cup {0},
                                op : Reqs \cup {NoOp}]]

Init ==
    /\ TreasuryInit
    /\ frozen = FALSE
    /\ oblig = [o \in Obligations |-> [status |-> "pending", is_held |-> FALSE, op |-> NoOp]]
    /\ adj = [a \in Adjustments |-> NoAdjustment]

-----------------------------------------------------------------------------
(* Freezes and holds stop an obligation before Treasury, never after.       *)

Freeze ==
    /\ ~frozen
    /\ frozen' = TRUE
    /\ UNCHANGED <<oblig, adj, treasuryVars>>

Unfreeze ==
    /\ frozen
    /\ frozen' = FALSE
    /\ UNCHANGED <<oblig, adj, treasuryVars>>

Hold(o) ==
    /\ ~oblig[o].is_held
    /\ oblig' = [oblig EXCEPT ![o].is_held = TRUE]
    /\ UNCHANGED <<frozen, adj, treasuryVars>>

Release(o) ==
    /\ oblig[o].is_held
    /\ oblig' = [oblig EXCEPT ![o].is_held = FALSE]
    /\ UNCHANGED <<frozen, adj, treasuryVars>>

-----------------------------------------------------------------------------
(* Settlement.                                                              *)

ApproveObligation(o) ==
    /\ oblig[o].status = "pending"
    /\ ~frozen /\ ~oblig[o].is_held
    /\ Calculated[o] > 0
    /\ oblig' = [oblig EXCEPT ![o].status = "approved"]
    /\ UNCHANGED <<frozen, adj, treasuryVars>>

M_LinkTreasuryRequest_Twice(o, r, s) ==
    /\ oblig[o].status = "approved"
    /\ ~frozen /\ ~oblig[o].is_held
    /\ CreateRequest(r, s, FALSE, Calculated[o], About("obligation", o))
    /\ oblig' = [oblig EXCEPT ![o].op = r]
    /\ UNCHANGED <<frozen, adj>>

(* Idempotent: an obligation that is linked already keeps its request.      *)
LinkTreasuryRequest(o, r, s) ==
    /\ oblig[o].op = NoOp
    /\ oblig[o].status = "approved"
    /\ ~frozen /\ ~oblig[o].is_held
    /\ CreateRequest(r, s, FALSE, Calculated[o], About("obligation", o))
    /\ oblig' = [oblig EXCEPT ![o].op = r]
    /\ UNCHANGED <<frozen, adj>>

FirstRows(rows) == {k \in rows : Cardinality({j \in rows : j < k}) < BatchSize}

M_SyncObligation_Optimistic(o) ==
    /\ oblig[o].status = "approved" /\ oblig[o].op # NoOp
    /\ Status(oblig[o].op) \in {"executing", "executed"}
    /\ oblig' = [oblig EXCEPT ![o].status = "credited"]
    /\ UNCHANGED <<frozen, adj, treasuryVars>>

M_SyncObligation_NotWhileFrozen(o) ==
    /\ o \in FirstRows({k \in Obligations : oblig[k].status = "approved" /\ oblig[k].op # NoOp})
    /\ Status(oblig[o].op) = "executed"
    /\ ~frozen
    /\ oblig' = [oblig EXCEPT ![o].status = "credited"]
    /\ UNCHANGED <<frozen, adj, treasuryVars>>

(* reconcile_approved_obligations syncs the oldest approved and linked      *)
(* rows, each in a transaction; those whose request will never be executed  *)
(* stay among them.                                                         *)
SyncObligation(o) ==
    /\ o \in FirstRows({k \in Obligations : oblig[k].status = "approved" /\ oblig[k].op # NoOp})
    /\ Status(oblig[o].op) = "executed"
    /\ oblig' = [oblig EXCEPT ![o].status = "credited"]
    /\ UNCHANGED <<frozen, adj, treasuryVars>>

-----------------------------------------------------------------------------
(* Adjustments.                                                             *)

AdjustmentAmount == [a \in Adjustments |-> adj[a].amount]

M_Reserved_OnlyExecuted(o) ==
    SumFunctionOnSet(AdjustmentAmount,
                     {a \in Adjustments : adj[a].obligation = o /\ adj[a].status = "executed"})

(* What adjustments take of a commission, from the moment they are asked    *)
(* for until they are rejected; one that Treasury will never execute too.   *)
Reserved(o) ==
    SumFunctionOnSet(AdjustmentAmount,
                     {a \in Adjustments : /\ adj[a].obligation = o
                                          /\ adj[a].status \in {"pending", "approved", "executed"}})

SubmitAdjustment(a, o, amount) ==
    /\ adj[a].status = "none"
    /\ \A b \in Adjustments : b < a => adj[b].status # "none"
    /\ oblig[o].status = "credited"
    /\ amount <= Calculated[o] - Reserved(o)
    /\ adj' = [adj EXCEPT ![a] = [status |-> "pending", obligation |-> o,
                                  amount |-> amount, op |-> NoOp]]
    /\ UNCHANGED <<frozen, oblig, treasuryVars>>

(* Checked again, without the adjustment's own share.                       *)
ApproveAdjustment(a) ==
    /\ adj[a].status = "pending"
    /\ adj[a].amount <= Calculated[adj[a].obligation]
                        - (Reserved(adj[a].obligation) - adj[a].amount)
    /\ adj' = [adj EXCEPT ![a].status = "approved"]
    /\ UNCHANGED <<frozen, oblig, treasuryVars>>

RejectAdjustment(a) ==
    /\ adj[a].status = "pending"
    /\ adj' = [adj EXCEPT ![a].status = "rejected"]
    /\ UNCHANGED <<frozen, oblig, treasuryVars>>

LinkAdjustment(a, r, s) ==
    /\ adj[a].op = NoOp
    /\ adj[a].status = "approved"
    /\ CreateRequest(r, s, TRUE, adj[a].amount, About("adjustment", a))
    /\ adj' = [adj EXCEPT ![a].op = r]
    /\ UNCHANGED <<frozen, oblig>>

SyncAdjustment(a) ==
    /\ a \in FirstRows({k \in Adjustments : adj[k].status = "approved" /\ adj[k].op # NoOp})
    /\ Status(adj[a].op) = "executed"
    /\ adj' = [adj EXCEPT ![a].status = "executed"]
    /\ UNCHANGED <<frozen, oblig, treasuryVars>>

-----------------------------------------------------------------------------
(* Staff also files requests by hand, on the same wallet.                   *)
ManualRequest(r, s, debit, amount) ==
    /\ <<debit, amount>> \in ManualRequests
    /\ CreateRequest(r, s, debit, amount, Manual)
    /\ UNCHANGED ibVars

Next ==
    \/ Freeze \/ Unfreeze
    \/ \E o \in Obligations :
           \/ Hold(o) \/ Release(o) \/ ApproveObligation(o) \/ SyncObligation(o)
           \/ \E r \in Reqs, s \in Staff : LinkTreasuryRequest(o, r, s)
           \/ \E a \in Adjustments, amount \in Amounts : SubmitAdjustment(a, o, amount)
    \/ \E a \in Adjustments :
           \/ ApproveAdjustment(a) \/ RejectAdjustment(a) \/ SyncAdjustment(a)
           \/ \E r \in Reqs, s \in Staff : LinkAdjustment(a, r, s)
    \/ \E r \in Reqs, s \in Staff, debit \in BOOLEAN, amount \in Amounts :
           ManualRequest(r, s, debit, amount)
    \/ TreasuryNext /\ UNCHANGED ibVars

(* The reconciliation tasks are on Celery's beat.  Nothing else is bound to *)
(* happen: people approve and execute when they do.                         *)
Fairness ==
    /\ \A o \in Obligations : WF_vars(SyncObligation(o))
    /\ \A a \in Adjustments : WF_vars(SyncAdjustment(a))

Spec == Init /\ [][Next]_vars /\ Fairness

-----------------------------------------------------------------------------
(* An obligation or an adjustment never has two requests, though the link   *)
(* may be asked for at any time and by anyone; and the one it has is for    *)
(* its own amount, on the right side of the ledger.                         *)
OneRequestPerRow ==
    \A r \in Reqs : Status(r) # "none" =>
        /\ \A o \in Obligations : req[r].reference = About("obligation", o) =>
               oblig[o].op = r /\ req[r].amount = Calculated[o] /\ ~req[r].debit
        /\ \A a \in Adjustments : req[r].reference = About("adjustment", a) =>
               adj[a].op = r /\ req[r].amount = adj[a].amount /\ req[r].debit

(* A request that was ended without success stays so and moves no money:    *)
(* a thread that is only slow finds out that recovery has given it up.      *)
EndedForGood ==
    [][\A r \in Reqs : Status(r) \in TERMINAL_NON_SUCCESS =>
           Status(r)' = Status(r) /\ tx[r]' = tx[r]]_vars

(* Adjustments that are asked for at the same time share the commission:    *)
(* together they never take back more than it.                              *)
ReversalsWithinCommission ==
    \A o \in Obligations :
        SumFunctionOnSet(AdjustmentAmount,
                         {a \in Adjustments : adj[a].obligation = o /\ adj[a].status # "rejected"})
            <= Calculated[o]

(* The staff that sees CREDITED or EXECUTED may rely on it.                 *)
SettledMeansPaid ==
    /\ \A o \in Obligations : oblig[o].status = "credited" => tx[oblig[o].op] = 1
    /\ \A a \in Adjustments : adj[a].status = "executed" => tx[adj[a].op] = 1

(* Both: an IB row and its request tell the same story at any time.         *)
RowsMatchTheirRequests == OneRequestPerRow /\ SettledMeansPaid

(* What has moved because of each obligation keeps the promise.             *)
Moved == [r \in Reqs |-> tx[r] * req[r].amount]
Paid == [o \in Obligations |->
            SumFunctionOnSet(Moved, {r \in Reqs : req[r].reference = About("obligation", o)})]
TakenBack == [o \in Obligations |->
            SumFunctionOnSet(Moved, {r \in Reqs : \E a \in Adjustments :
                               adj[a].obligation = o /\ req[r].reference = About("adjustment", a)})]

Promise == INSTANCE CommissionPromise
               WITH Owed <- Calculated, paid <- Paid, takenBack <- TakenBack

(* Implementation: a commission is paid once and in full, and adjustments,  *)
(* in whatever order they are approved, linked and executed, never take     *)
(* back more than was paid.                                                 *)
KeepsCommissionPromise == Promise!PromiseSpec

(* Once Treasury has paid, the obligation is credited without anyone's      *)
(* doing anything more.                                                     *)
PaidGetsCredited ==
    \A o \in Obligations :
        (oblig[o].op # NoOp /\ Status(oblig[o].op) = "executed") ~> oblig[o].status = "credited"

=============================================================================

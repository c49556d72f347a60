---------------------------- MODULE FundedPayout ----------------------------
(***************************************************************************)
(* Payouts of the profit of a funded account.  The trader's view reads the *)
(* balance, and only later locks the account and records the request; an   *)
(* operator approves it.  A FUNDED_SIM request is paid into the wallet in  *)
(* one transaction.  A FUNDED_INTERNAL one is debited first, submitted to  *)
(* the payment provider next, and settled by the provider's webhook.       *)
(*                                                                         *)
(*   simulator/views.py                funded_payout_request_view          *)
(*   simulator/funded_payouts.py       approve_..., webhook handler        *)
(*   simulator/payout_orchestrator.py  _apply_funded_internal_webhook      *)
(*                                                                         *)
(* The module has no Spec of its own: Challenge composes it with the       *)
(* phases that produce the funded account.  All money is in cents.         *)
(***************************************************************************)
EXTENDS Integers, FiniteSets, FiniteSetsExt, Functions

CONSTANTS
    Requests,      \* FundedPayoutRequest rows
    Views,         \* concurrent requests of the trader's browser
    FundedTypes,   \* the types FundedConfig may hold, of "SIM" and "INTERNAL"
    SplitPct,      \* FundedConfig.profit_split_pct
    MinPayout      \* FundedConfig.min_payout_usd

ASSUME PayoutAssumption ==
    /\ IsFiniteSet(Requests)
    /\ FundedTypes \subseteq {"SIM", "INTERNAL"}
    /\ SplitPct \in 0 .. 100
    /\ MinPayout \in Nat \ {0}

VARIABLES
    balance,    \* TradingAccount.balance of the account the enrollment is on
    initial,    \* ... and its initial_balance: where the profit cycle started
    fpr,        \* the FundedPayoutRequest rows
    wr,         \* status of the WithdrawalRequest of each internal payout
    seen,       \* what each view has read, and not yet used
    submitting, \* program counter of the operator's thread, per request
    provider,   \* what the payment provider has done with each payout
    credits     \* number of wallet credits each request has caused

payoutVars == <<fpr, wr, seen, submitting, provider, credits>>

NoPayout == [status |-> "none", kind |-> "SIM", profit |-> 0, cut |-> 0]
NothingSeen == [profit |-> 0, kind |-> "SIM"]

(* No service writes the remaining ones, rejected and cancelled: staff may  *)
(* type them into the admin form, which is not modelled.                    *)
ACTIVE_FPR == {"pending", "approved", "processing"}
TERMINAL_FPR == {"completed", "failed"}
TERMINAL_WR == {"COMPLETED", "FAILED"}

PayoutTypeOK ==
    /\ balance \in Nat
    /\ initial \in Nat
    /\ fpr \in [Requests -> [status : {"none"} \cup ACTIVE_FPR \cup TERMINAL_FPR,
                             kind : {"SIM", "INTERNAL"}, profit : Nat, cut : Nat]]
    /\ wr \in [Requests -> {"none", "APPROVED", "PROCESSING"} \cup TERMINAL_WR]
    /\ seen \in [Views -> [profit : Nat, kind : {"SIM", "INTERNAL"}]]
    /\ submitting \in [Requests -> {"idle", "debited", "posted", "saved"}]
    /\ provider \in [Requests -> {"none", "accepted", "COMPLETED", "FAILED"}]
    /\ credits \in [Requests -> Nat]

PayoutInit ==
    /\ fpr = [r \in Requests |-> NoPayout]
    /\ wr = [r \in Requests |-> "none"]
    /\ seen = [v \in Views |-> NothingSeen]
    /\ submitting = [r \in Requests |-> "idle"]
    /\ provider = [r \in Requests |-> "none"]
    /\ credits = [r \in Requests |-> 0]

(* Decimal.quantize: to the nearest unit, a tie to the even neighbour.      *)
Quantize(num, den) ==
    LET low == num \div den
        rest == 2 * (num % den)
    IN  IF rest > den \/ (rest = den /\ low % 2 = 1) THEN low + 1 ELSE low

(* cycle_profit = max(0, balance - initial); the trader's share of it.      *)
CycleProfit == IF balance > initial THEN balance - initial ELSE 0
TraderCut(profit) == Quantize(profit * SplitPct, 100)

-----------------------------------------------------------------------------
(* The trader asks.  The view computes the profit from an unlocked read ... *)

ReadCycle(v, kind) ==
    /\ seen[v] = NothingSeen
    /\ CycleProfit >= MinPayout
    /\ seen' = [seen EXCEPT ![v] = [profit |-> CycleProfit, kind |-> kind]]
    /\ UNCHANGED <<balance, initial, fpr, wr, submitting, provider, credits>>

HasActiveRequest == \E r \in Requests : fpr[r].status \in ACTIVE_FPR

(* ... and records it under a lock, unless another request is open.  The    *)
(* unique constraint fpr_one_active_request_per_enrollment backs the check. *)
CreatePayout(v, r) ==
    /\ seen[v] # NothingSeen
    /\ seen' = [seen EXCEPT ![v] = NothingSeen]
    /\ \/ /\ ~HasActiveRequest
          /\ fpr[r].status = "none"
          /\ fpr' = [fpr EXCEPT ![r] = [status |-> "pending", kind |-> seen[v].kind,
                                        profit |-> seen[v].profit,
                                        cut |-> TraderCut(seen[v].profit)]]
       \/ /\ HasActiveRequest
          /\ UNCHANGED fpr
    /\ UNCHANGED <<balance, initial, wr, submitting, provider, credits>>

-----------------------------------------------------------------------------
(* The operator approves.                                                    *)

MayApprove(r, kind) ==
    /\ fpr[r].status = "pending"
    /\ fpr[r].kind = kind
    /\ balance >= fpr[r].cut

SetStatus(r, status) == fpr' = [fpr EXCEPT ![r].status = status]

(* approve_sim_payout: debit, wallet credit and the new cycle in one step.  *)
ApproveSim(r) ==
    /\ MayApprove(r, "SIM")
    /\ balance' = balance - fpr[r].cut
    /\ initial' = balance'
    /\ credits' = [credits EXCEPT ![r] = @ + 1]
    /\ SetStatus(r, "completed")
    /\ UNCHANGED <<wr, seen, submitting, provider>>

(* approve_internal_payout, phase 1: debit and withdrawal row, committed.   *)
ApproveInternal(r) ==
    /\ MayApprove(r, "INTERNAL")
    /\ balance' = balance - fpr[r].cut
    /\ wr' = [wr EXCEPT ![r] = "APPROVED"]
    /\ SetStatus(r, "approved")
    /\ submitting' = [submitting EXCEPT ![r] = "debited"]
    /\ UNCHANGED <<initial, seen, provider, credits>>

(* _reverse_and_fail: the money goes back, whatever the rows say by now.    *)
ReverseAndFail(r) ==
    /\ balance' = balance + fpr[r].cut
    /\ SetStatus(r, "failed")
    /\ wr' = [wr EXCEPT ![r] = "FAILED"]

(* Phase 2.  No price or no token: nothing was sent, so it is reversed.     *)
SubmitRejected(r) ==
    /\ submitting[r] = "debited"
    /\ ReverseAndFail(r)
    /\ submitting' = [submitting EXCEPT ![r] = "idle"]
    /\ UNCHANGED <<initial, seen, provider, credits>>

(* The POST raises, or its answer cannot be read: the provider may have     *)
(* accepted the payout, and _mark_ambiguous leaves the rows as they are.    *)
M_PostUnanswered_Reverses(r) ==
    /\ submitting[r] = "debited"
    /\ \E outcome \in {"none", "accepted"} : provider' = [provider EXCEPT ![r] = outcome]
    /\ ReverseAndFail(r)
    /\ submitting' = [submitting EXCEPT ![r] = "idle"]
    /\ UNCHANGED <<initial, seen, credits>>

PostUnanswered(r) ==
    /\ submitting[r] = "debited"
    /\ \E outcome \in {"none", "accepted"} : provider' = [provider EXCEPT ![r] = outcome]
    /\ submitting' = [submitting EXCEPT ![r] = "idle"]
    /\ UNCHANGED <<balance, initial, fpr, wr, seen, credits>>

PostAccepted(r) ==
    /\ submitting[r] = "debited"
    /\ provider' = [provider EXCEPT ![r] = "accepted"]
    /\ submitting' = [submitting EXCEPT ![r] = "posted"]
    /\ UNCHANGED <<balance, initial, fpr, wr, seen, credits>>

(* Two updates, each committed alone and neither conditional on the row.    *)
SaveWithdrawal(r) ==
    /\ submitting[r] = "posted"
    /\ wr' = [wr EXCEPT ![r] = "PROCESSING"]
    /\ submitting' = [submitting EXCEPT ![r] = "saved"]
    /\ UNCHANGED <<balance, initial, fpr, seen, provider, credits>>

(* The second one meets the unique constraint when the webhook was faster   *)
(* and another request is open by now; the error is recorded and raised.    *)
SaveRequest(r) ==
    /\ submitting[r] = "saved"
    /\ \/ /\ \A q \in Requests \ {r} : fpr[q].status \notin ACTIVE_FPR
          /\ SetStatus(r, "processing")
       \/ /\ \E q \in Requests \ {r} : fpr[q].status \in ACTIVE_FPR
          /\ UNCHANGED fpr
    /\ submitting' = [submitting EXCEPT ![r] = "idle"]
    /\ UNCHANGED <<balance, initial, wr, seen, provider, credits>>

(* The process stops, or the database refuses an update.                    *)
SubmitStops(r) ==
    /\ submitting[r] # "idle"
    /\ submitting' = [submitting EXCEPT ![r] = "idle"]
    /\ UNCHANGED <<balance, initial, fpr, wr, seen, provider, credits>>

-----------------------------------------------------------------------------
(* The provider settles, and tells it any number of times.                  *)

ProviderSettles(r) ==
    /\ provider[r] = "accepted"
    /\ \E outcome \in TERMINAL_WR : provider' = [provider EXCEPT ![r] = outcome]
    /\ UNCHANGED <<balance, initial, fpr, wr, seen, submitting, credits>>

(* handle_internal_payout_webhook, under the locks of both rows.            *)
SettleRequest(r, outcome) ==
    IF fpr[r].status \in TERMINAL_FPR
    THEN UNCHANGED <<balance, initial, fpr>>
    ELSE \/ /\ outcome = "COMPLETED"
            /\ initial' = balance
            /\ SetStatus(r, "completed")
            /\ UNCHANGED balance
         \/ /\ outcome = "FAILED"
            /\ balance' = balance + fpr[r].cut
            /\ SetStatus(r, "failed")
            /\ UNCHANGED initial

(* The withdrawal is found by the provider's reference, which SaveWithdrawal*)
(* has stored; once it is final a repeated notice changes nothing.  Notices *)
(* of progress are no steps: they write PROCESSING over PROCESSING.         *)
M_Webhook_TrustsTheRequest(r) ==
    /\ provider[r] \in TERMINAL_WR
    /\ wr[r] \in {"PROCESSING"} \cup TERMINAL_WR
    /\ SettleRequest(r, provider[r])
    /\ wr' = [wr EXCEPT ![r] = provider[r]]
    /\ UNCHANGED <<seen, submitting, provider, credits>>

Webhook(r) ==
    /\ provider[r] \in TERMINAL_WR
    /\ wr[r] = "PROCESSING"
    /\ SettleRequest(r, provider[r])
    /\ wr' = [wr EXCEPT ![r] = provider[r]]
    /\ UNCHANGED <<seen, submitting, provider, credits>>

PayoutByOperator ==
    \E r \in Requests :
        \/ ApproveSim(r)
        \/ ApproveInternal(r)
        \/ SubmitRejected(r)
        \/ PostUnanswered(r)
        \/ PostAccepted(r)
        \/ SaveWithdrawal(r)
        \/ SaveRequest(r)
        \/ SubmitStops(r)
        \/ ProviderSettles(r)
        \/ Webhook(r)
=============================================================================

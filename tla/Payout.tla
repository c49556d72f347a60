------------------------------- MODULE Payout -------------------------------
(***************************************************************************)
(* Client withdrawals and the payout attempts that carry them out:         *)
(* simulator/payout_state_machine.py, the submission, applier and          *)
(* reconciliation halves of simulator/payout_orchestrator.py, the admin    *)
(* actions of simulator/admin.py that approve, retry or reject, and the    *)
(* part of views.py that creates the WithdrawalRequest.                    *)
(*                                                                         *)
(* A database transaction is one action: every decision in it is taken     *)
(* under select_for_update().  HTTP calls, unlocked reads and the gaps     *)
(* between two transactions of one handler are separate actions, so that   *)
(* other processes interleave there and a crash can fall there.            *)
(***************************************************************************)
EXTENDS Naturals, FiniteSetsExt

CONSTANTS
    Withdrawals,      \* WithdrawalRequest rows that can come to exist
    Users,
    Admins,
    Submitters,       \* threads that may run submit_withdrawal_to_provider()
    Reconcilers,      \* workers that may run reconcile_unknown_payouts_task
    NoOne,            \* SQL NULL
    Owner,            \* Withdrawals -> Users
    AmountUsd,        \* Withdrawals -> Nat, the gross amount debited
    DualApproval,     \* the withdrawals above $1,000 (required_approvals = 2)
    Charged,          \* the withdrawals whose snapshotted fee_amount is positive
    InitialBalance,   \* Users -> Nat
    MaxAttempts       \* bound on PayoutAttempt rows per withdrawal

ASSUME PayoutConstants ==
    /\ IsFiniteSet(Withdrawals)
    /\ Owner \in [Withdrawals -> Users]
    /\ AmountUsd \in [Withdrawals -> Nat \ {0}]
    /\ DualApproval \subseteq Withdrawals
    /\ Charged \subseteq Withdrawals
    /\ InitialBalance \in [Users -> Nat]
    /\ MaxAttempts \in Nat \ {0}
    /\ NoOne \notin Admins
    /\ NoOne \notin Withdrawals \X (1..MaxAttempts)

Attempts == Withdrawals \X (1..MaxAttempts)

(* "none" stands for a row that does not exist.  PayoutAttempt.CREATED is   *)
(* never committed, so it is not a state here.                              *)
AttemptStatus == {"none", "submitted", "processing", "unknown", "completed", "failed"}
WithdrawalStatus == {"none", "pending", "processing", "completed", "rejected", "failed"}

VARIABLES
    wr,          \* WithdrawalRequest.status
    approvals,   \* first_approved_by / second_approved_by
    wallet,      \* Wallet.available_balance
    refunds,     \* number of TX_CORRECTION credits a withdrawal has caused
    feeRevenue,  \* withdrawals with a REV_WITHDRAW_FEE row in BrokerLedger
    status,      \* PayoutAttempt.status
    ref,         \* PayoutAttempt.provider_reference # ""
    sub,         \* program counter of each submitting thread
    rec,         \* program counter of each reconciliation run
    provider     \* what the provider has really done with the attempt

money == <<wallet, refunds, feeRevenue>>
vars == <<wr, approvals, wallet, refunds, feeRevenue, status, ref, sub, rec, provider>>

-----------------------------------------------------------------------------
(* The attempt state machine.                                               *)

TERMINAL_STATUSES == {"completed", "failed"}

(* An operator named M_... is a mutant: a defect the definition after it     *)
(* could have had, which some property of this module catches.              *)
ALLOWED_TRANSITIONS ==
    [none       |-> {},
     submitted  |-> {"processing", "unknown", "failed"},
     processing |-> {"completed", "failed"},
     unknown    |-> {"processing", "completed", "failed"},
     completed  |-> {},
     failed     |-> {}]

derive_withdrawal_status ==
    [submitted  |-> "processing",
     processing |-> "processing",
     unknown    |-> "processing",
     completed  |-> "completed",
     failed     |-> "failed"]

(* transition_payout_attempt() accepts the change; otherwise it raises and  *)
(* the transaction around it rolls back.                                    *)
MayTransition(a, new, preSendRejection) ==
    /\ new \in ALLOWED_TRANSITIONS[status[a]]
    /\ (status[a] = "submitted" /\ new = "failed") => preSendRejection

(* transition_payout_attempt() then sync_withdrawal_request_status().       *)
TransitionAndSync(a, new) ==
    /\ status' = [status EXCEPT ![a] = new]
    /\ wr' = [wr EXCEPT ![a[1]] = derive_withdrawal_status[new]]

credit_wallet(u, amt) == wallet' = [wallet EXCEPT ![u] = @ + amt]

M_Refund_NetAmount(w) ==
    /\ credit_wallet(Owner[w], AmountUsd[w] - 1)
    /\ refunds' = [refunds EXCEPT ![w] = @ + 1]

Refund(w) ==
    /\ credit_wallet(Owner[w], AmountUsd[w])
    /\ refunds' = [refunds EXCEPT ![w] = @ + 1]

Raises(a, new, preSendRejection) ==
    /\ status[a] \notin TERMINAL_STATUSES
    /\ ~MayTransition(a, new, preSendRejection)

(* Only at COMPLETED, and only for a withdrawal that was charged a fee; the  *)
(* unique constraint of BrokerLedger makes a second row impossible.          *)
record_withdrawal_fee_revenue(w, new) ==
    feeRevenue' = IF new = "completed" THEN feeRevenue \cup ({w} \cap Charged)
                                       ELSE feeRevenue

(* _apply_result_without_refund(), when it returns.                          *)
ApplyResultWithoutRefund(a, new) ==
    /\ UNCHANGED <<wallet, refunds>>
    /\ \/ /\ status[a] \in TERMINAL_STATUSES
          /\ UNCHANGED <<status, wr, feeRevenue>>
       \/ /\ MayTransition(a, new, FALSE)
          /\ TransitionAndSync(a, new)
          /\ record_withdrawal_fee_revenue(a[1], new)

(* _apply_confirmed_failure_with_refund(), when it returns.                  *)
ApplyConfirmedFailureWithRefund(a, preSendRejection) ==
    \/ /\ status[a] \in TERMINAL_STATUSES
       /\ UNCHANGED <<status, wr, money>>
    \/ /\ MayTransition(a, "failed", preSendRejection)
       /\ TransitionAndSync(a, "failed")
       /\ Refund(a[1])
       /\ UNCHANGED feeRevenue

(* _apply_submission_success(), when it returns: the references are saved    *)
(* with the transition.                                                     *)
ApplySubmissionSuccess(a, hasReference) ==
    /\ ApplyResultWithoutRefund(a, "processing")
    /\ ref' = [ref EXCEPT ![a] = IF status[a] \in TERMINAL_STATUSES THEN @ ELSE hasReference]

-----------------------------------------------------------------------------
(* Process-local state.                                                     *)

SubmitPC == {"idle", "preview", "claim", "auth", "rejected", "sent",
             "acked", "acked_no_ref", "ambiguous"}
(* The points of submit_withdrawal_to_provider() after TXN1 has committed.  *)
Owning == {"auth", "rejected", "sent", "acked", "acked_no_ref", "ambiguous"}

IdleSub == [pc |-> "idle", wd |-> NoOne, att |-> NoOne]
IdleRec == [stage |-> "idle", todo |-> {}, cur |-> NoOne, found |-> "none"]

SubGoto(s, pc) == sub' = [sub EXCEPT ![s].pc = pc]
SubDone(s) == sub' = [sub EXCEPT ![s] = IdleSub]

Accepted(a) == provider[a] \in {"held", "finished", "failed"}

Init ==
    /\ wr = [w \in Withdrawals |-> "none"]
    /\ approvals = [w \in Withdrawals |-> [first |-> NoOne, second |-> NoOne]]
    /\ wallet = InitialBalance
    /\ refunds = [w \in Withdrawals |-> 0]
    /\ feeRevenue = {}
    /\ status = [a \in Attempts |-> "none"]
    /\ ref = [a \in Attempts |-> FALSE]
    /\ sub = [s \in Submitters |-> IdleSub]
    /\ rec = [r \in Reconcilers |-> IdleRec]
    /\ provider = [a \in Attempts |-> "none"]

-----------------------------------------------------------------------------
(* The request: created with its debit, approved, or rejected with refund.  *)

CreateWithdrawal(w) ==
    /\ wr[w] = "none"
    /\ \A v \in Withdrawals : Owner[v] = Owner[w] => wr[v] # "pending"
    /\ wallet[Owner[w]] >= AmountUsd[w]
    /\ wallet' = [wallet EXCEPT ![Owner[w]] = @ - AmountUsd[w]]
    /\ wr' = [wr EXCEPT ![w] = "pending"]
    /\ UNCHANGED <<approvals, refunds, feeRevenue, status, ref, sub, rec, provider>>

FirstApprove(d, w) ==
    /\ wr[w] = "pending"
    /\ w \in DualApproval
    /\ approvals[w].first = NoOne
    /\ approvals' = [approvals EXCEPT ![w].first = d]
    /\ UNCHANGED <<wr, money, status, ref, sub, rec, provider>>

M_ApproveAndSubmit_SameAdmin(s, d, w) ==
    /\ sub[s].pc = "idle"
    /\ wr[w] = "pending"
    /\ w \in DualApproval => approvals[w].first # NoOne
    /\ approvals' = IF w \in DualApproval THEN [approvals EXCEPT ![w].second = d] ELSE approvals
    /\ sub' = [sub EXCEPT ![s] = [pc |-> "preview", wd |-> w, att |-> NoOne]]
    /\ UNCHANGED <<wr, money, status, ref, rec, provider>>

(* approve_withdrawals: the _apply_second_approval() transaction, after     *)
(* which the admin's thread calls submit_withdrawal_to_provider().          *)
ApproveAndSubmit(s, d, w) ==
    /\ sub[s].pc = "idle"
    /\ wr[w] = "pending"
    /\ \/ /\ w \notin DualApproval
          /\ UNCHANGED approvals
       \/ /\ w \in DualApproval
          /\ approvals[w].first \notin {NoOne, d}
          /\ approvals' = [approvals EXCEPT ![w].second = IF @ = NoOne THEN d ELSE @]
    /\ sub' = [sub EXCEPT ![s] = [pc |-> "preview", wd |-> w, att |-> NoOne]]
    /\ UNCHANGED <<wr, money, status, ref, rec, provider>>

(* The automatic submission of a withdrawal up to $1,000, and the staff     *)
(* action retry_auto_authorized_payout.                                     *)
AutoSubmit(s, w) ==
    /\ sub[s].pc = "idle"
    /\ wr[w] = "pending"
    /\ w \notin DualApproval
    /\ sub' = [sub EXCEPT ![s] = [pc |-> "preview", wd |-> w, att |-> NoOne]]
    /\ UNCHANGED <<wr, approvals, money, status, ref, rec, provider>>

RejectWithdrawal(w) ==
    /\ wr[w] = "pending"
    /\ wr' = [wr EXCEPT ![w] = "rejected"]
    /\ Refund(w)
    /\ UNCHANGED <<approvals, feeRevenue, status, ref, sub, rec, provider>>

-----------------------------------------------------------------------------
(* submit_withdrawal_to_provider().                                         *)

(* Steps 1 and 2: an unlocked read, then estimate(), which may fail.        *)
SubmitPreview(s) ==
    /\ sub[s].pc = "preview"
    /\ \/ SubDone(s)
       \/ wr[sub[s].wd] = "pending" /\ SubGoto(s, "claim")
    /\ UNCHANGED <<wr, approvals, money, status, ref, rec, provider>>

(* Step 3, TXN1, refused: WithdrawalAlreadyClaimed, ActivePayoutAttemptExists. *)
HasActiveAttempt(w) ==
    \E n \in 1..MaxAttempts : status[<<w, n>>] \notin TERMINAL_STATUSES \cup {"none"}

M_Claimable_StaleRead(w) == wr[w] # "rejected" /\ ~HasActiveAttempt(w)

Claimable(w) == wr[w] = "pending" /\ ~HasActiveAttempt(w)

SubmitRefused(s) ==
    /\ sub[s].pc = "claim"
    /\ ~Claimable(sub[s].wd)
    /\ SubDone(s)
    /\ UNCHANGED <<wr, approvals, money, status, ref, rec, provider>>

IsNextAttemptNumber(w, n) ==
    \A m \in 1..MaxAttempts : status[<<w, m>>] # "none" <=> m < n

(* Step 3, TXN1: create_and_submit_payout_attempt() under the row lock.     *)
SubmitClaim(s) ==
    LET w == sub[s].wd IN
    /\ sub[s].pc = "claim"
    /\ Claimable(w)
    /\ \E n \in 1..MaxAttempts :
          /\ IsNextAttemptNumber(w, n)
          /\ TransitionAndSync(<<w, n>>, "submitted")
          /\ sub' = [sub EXCEPT ![s] = [pc |-> "auth", wd |-> w, att |-> <<w, n>>]]
    /\ UNCHANGED <<approvals, money, ref, rec, provider>>

M_SubmitAuthFails_AnyError(s) ==
    /\ sub[s].pc \in {"auth", "sent"}
    /\ SubGoto(s, "rejected")
    /\ UNCHANGED <<wr, approvals, money, status, ref, rec, provider>>

(* Step 4, create_payout(): no token, so the payout POST is never made.     *)
SubmitAuthFails(s) ==
    /\ sub[s].pc = "auth"
    /\ SubGoto(s, "rejected")
    /\ UNCHANGED <<wr, approvals, money, status, ref, rec, provider>>

SubmitPost(s) ==
    /\ sub[s].pc = "auth"
    /\ SubGoto(s, "sent")
    /\ provider' = [provider EXCEPT ![sub[s].att] = "inflight"]
    /\ UNCHANGED <<wr, approvals, money, status, ref, rec>>

(* The POST returns: 2xx with an id, 2xx whose withdrawals[] is empty, or   *)
(* an error that tells nothing about what the provider did.                 *)
SubmitResponse(s) ==
    /\ sub[s].pc = "sent"
    /\ \/ Accepted(sub[s].att) /\ \E pc \in {"acked", "acked_no_ref"} : SubGoto(s, pc)
       \/ SubGoto(s, "ambiguous")
    /\ UNCHANGED <<wr, approvals, money, status, ref, rec, provider>>

(* Step 5, TXN2.                                                            *)
SubmitSuccess(s) ==
    /\ sub[s].pc \in {"acked", "acked_no_ref"}
    /\ ApplySubmissionSuccess(sub[s].att, sub[s].pc = "acked")
    /\ SubDone(s)
    /\ UNCHANGED <<approvals, rec, provider>>

M_SubmitUnknown_TimeoutFails(s) ==
    /\ sub[s].pc = "ambiguous"
    /\ ApplyConfirmedFailureWithRefund(sub[s].att, TRUE)
    /\ SubDone(s)
    /\ UNCHANGED <<approvals, ref, rec, provider>>

SubmitUnknown(s) ==
    /\ sub[s].pc = "ambiguous"
    /\ ApplyResultWithoutRefund(sub[s].att, "unknown")
    /\ SubDone(s)
    /\ UNCHANGED <<approvals, ref, rec, provider>>

SubmitRejected(s) ==
    /\ sub[s].pc = "rejected"
    /\ ApplyConfirmedFailureWithRefund(sub[s].att, TRUE)
    /\ SubDone(s)
    /\ UNCHANGED <<approvals, ref, rec, provider>>

Answer ==
    [acked |-> "processing", acked_no_ref |-> "processing",
     ambiguous |-> "unknown", rejected |-> "failed"]

(* The applier of the answer raised and rolled back; the thread ends.       *)
SubmitRaises(s) ==
    LET pc == sub[s].pc IN
    /\ pc \in DOMAIN Answer
    /\ Raises(sub[s].att, Answer[pc], pc = "rejected")
    /\ SubDone(s)
    /\ UNCHANGED <<wr, approvals, money, status, ref, rec, provider>>

(* The web or worker process dies; its next transaction never happens.      *)
SubmitCrash(s) ==
    /\ sub[s].pc # "idle"
    /\ SubDone(s)
    /\ UNCHANGED <<wr, approvals, money, status, ref, rec, provider>>

-----------------------------------------------------------------------------
(* The provider.  A request on the wire may arrive after the client gave up. *)

ProviderAccepts(a) ==
    /\ provider[a] = "inflight"
    /\ provider' = [provider EXCEPT ![a] = "held"]
    /\ UNCHANGED <<wr, approvals, money, status, ref, sub, rec>>

ProviderSettles(a) ==
    /\ provider[a] = "held"
    /\ \E end \in {"finished", "failed"} : provider' = [provider EXCEPT ![a] = end]
    /\ UNCHANGED <<wr, approvals, money, status, ref, sub, rec>>

(* What a webhook about a may truthfully say.  Notices are delayed,         *)
(* duplicated and reordered, so "processing" stays possible for ever.       *)
Evidence(a, new) ==
    \/ new = "processing" /\ Accepted(a)
    \/ new = "completed" /\ provider[a] = "finished"
    \/ new = "failed" /\ provider[a] = "failed"

(* _apply_attempt_webhook(), when it returns.                               *)
ApplyAttemptWebhook(a, new) ==
    /\ \/ new = "failed" /\ ApplyConfirmedFailureWithRefund(a, FALSE)
       \/ new # "failed" /\ ApplyResultWithoutRefund(a, new)
    /\ UNCHANGED <<approvals, ref, provider>>

(* A signed webhook, correlated by provider_reference to its attempt.       *)
WebhookApplied(a) ==
    /\ ref[a]
    /\ \E new \in {"processing", "completed", "failed"} :
          Evidence(a, new) /\ ApplyAttemptWebhook(a, new)
    /\ UNCHANGED <<sub, rec>>

-----------------------------------------------------------------------------
(* reconcile_unknown_payouts_task.  Each list is read once, without locks.  *)

InStage(r, st) == rec[r].stage = st /\ rec[r].cur = NoOne
Busy(st, todo) == [stage |-> st, todo |-> todo, cur |-> NoOne, found |-> "none"]

(* Any set of the submitted rows may be past the age threshold.             *)
RecStart(r) ==
    /\ rec[r].stage \in {"idle", "crashed"}
    /\ \E aged \in SUBSET {a \in Attempts : status[a] = "submitted"} :
          rec' = [rec EXCEPT ![r] = Busy("age", aged)]
    /\ UNCHANGED <<wr, approvals, money, status, ref, sub, provider>>

RecAge(r) ==
    /\ rec[r].stage = "age"
    /\ \E a \in rec[r].todo :
          /\ ApplyResultWithoutRefund(a, "unknown")
          /\ rec' = [rec EXCEPT ![r] = Busy(@.stage, @.todo \ {a})]
    /\ UNCHANGED <<approvals, ref, sub, provider>>

RecListUnknown(r) ==
    /\ rec[r].stage = "age" /\ rec[r].todo = {}
    /\ rec' = [rec EXCEPT ![r] = Busy("unknown", {a \in Attempts : status[a] = "unknown"})]
    /\ UNCHANGED <<wr, approvals, money, status, ref, sub, provider>>

M_RecListProcessing_UnknownOnly(r) ==
    /\ InStage(r, "unknown") /\ rec[r].todo = {}
    /\ rec' = [rec EXCEPT ![r] = Busy("processing", {a \in Attempts : status[a] = "unknown" /\ ref[a]})]
    /\ UNCHANGED <<wr, approvals, money, status, ref, sub, provider>>

(* Rows with a reference that have been processing longer than the threshold. *)
RecListProcessing(r) ==
    /\ InStage(r, "unknown") /\ rec[r].todo = {}
    /\ \E old \in SUBSET {a \in Attempts : status[a] = "processing" /\ ref[a]} :
          rec' = [rec EXCEPT ![r] = Busy("processing", old)]
    /\ UNCHANGED <<wr, approvals, money, status, ref, sub, provider>>

RecEnd(r) ==
    /\ InStage(r, "processing") /\ rec[r].todo = {}
    /\ rec' = [rec EXCEPT ![r] = IdleRec]
    /\ UNCHANGED <<wr, approvals, money, status, ref, sub, provider>>

LookupOutcome(a) ==
    IF provider[a] = "finished" THEN "completed"
    ELSE IF provider[a] = "failed" THEN "failed" ELSE "processing"

(* lookup_payout(): UNSUPPORTED without a reference, otherwise a GET that   *)
(* may fail (UNAVAILABLE, NOT_FOUND, AMBIGUOUS) or report the real state.   *)
RecLookup(r, a) ==
    /\ InStage(r, "unknown") \/ InStage(r, "processing")
    /\ a \in rec[r].todo
    /\ \/ rec' = [rec EXCEPT ![r] = Busy(@.stage, @.todo \ {a})]
       \/ /\ ref[a]
          /\ rec' = [rec EXCEPT ![r] = [stage |-> @.stage, todo |-> @.todo \ {a},
                                        cur |-> a, found |-> LookupOutcome(a)]]
    /\ UNCHANGED <<wr, approvals, money, status, ref, sub, provider>>

(* _apply_lookup_outcome(): nothing to do for an attempt already processing. *)
StillProcessing(r) == rec[r].found = "processing" /\ status[rec[r].cur] = "processing"

RecApply(r) ==
    LET a == rec[r].cur
        new == rec[r].found
    IN
    /\ a # NoOne
    /\ \/ StillProcessing(r) /\ UNCHANGED <<status, wr, money>>
       \/ new = "failed" /\ ApplyConfirmedFailureWithRefund(a, FALSE)
       \/ /\ new # "failed" /\ ~StillProcessing(r)
          /\ ApplyResultWithoutRefund(a, new)
    /\ rec' = [rec EXCEPT ![r] = Busy(@.stage, @.todo)]
    /\ UNCHANGED <<approvals, ref, sub, provider>>

(* What the run is about to apply, and to which attempt.                    *)
RecPending(r) ==
    IF rec[r].stage = "age" THEN rec[r].todo \X {"unknown"}
    ELSE IF rec[r].cur # NoOne THEN {<<rec[r].cur, rec[r].found>>} ELSE {}

(* An exception leaves the loop, and the task run with it.                  *)
RecRaises(r) ==
    /\ \E p \in RecPending(r) : Raises(p[1], p[2], FALSE)
    /\ rec[r].cur # NoOne => ~StillProcessing(r)
    /\ rec' = [rec EXCEPT ![r] = IdleRec]
    /\ UNCHANGED <<wr, approvals, money, status, ref, sub, provider>>

(* The worker dies; the next run starts afresh.                             *)
RecCrash(r) ==
    /\ rec[r].stage \notin {"idle", "crashed"}
    /\ rec' = [rec EXCEPT ![r] = Busy("crashed", {})]
    /\ UNCHANGED <<wr, approvals, money, status, ref, sub, provider>>

-----------------------------------------------------------------------------
Request ==
    \E w \in Withdrawals :
       \/ CreateWithdrawal(w)
       \/ RejectWithdrawal(w)
       \/ \E d \in Admins : FirstApprove(d, w)
       \/ \E s \in Submitters : AutoSubmit(s, w)
       \/ \E s \in Submitters, d \in Admins : ApproveAndSubmit(s, d, w)

Submit ==
    \E s \in Submitters :
       \/ SubmitPreview(s) \/ SubmitRefused(s) \/ SubmitClaim(s)
       \/ SubmitAuthFails(s) \/ SubmitPost(s) \/ SubmitResponse(s)
       \/ SubmitSuccess(s) \/ SubmitUnknown(s) \/ SubmitRejected(s)
       \/ SubmitRaises(s) \/ SubmitCrash(s)

Provider ==
    \E a \in Attempts : ProviderAccepts(a) \/ ProviderSettles(a)

Webhook == \E a \in Attempts : WebhookApplied(a)

Reconcile ==
    \E r \in Reconcilers :
       \/ RecStart(r) \/ RecAge(r) \/ RecListUnknown(r) \/ RecListProcessing(r)
       \/ RecEnd(r) \/ RecApply(r) \/ RecRaises(r) \/ RecCrash(r)
       \/ \E a \in Attempts : RecLookup(r, a)

Next == Request \/ Submit \/ Provider \/ Webhook \/ Reconcile

Spec == Init /\ [][Next]_vars

(* Celery beat starts the reconciliation task every 15 minutes and its HTTP *)
(* calls time out, so a run goes on; workers do not crash for ever; the row *)
(* of an attempt grows older than the threshold; a provider asked again and *)
(* again for a payout answers at last.  Nothing is assumed of the           *)
(* submitting threads nor of the webhooks.                                  *)
RecStep(r) ==
    \/ RecStart(r) \/ RecAge(r) \/ RecRaises(r) \/ RecListUnknown(r)
    \/ RecListProcessing(r) \/ RecEnd(r) \/ RecApply(r)
    \/ \E a \in Attempts : RecLookup(r, a)

ReconcileFairness ==
    /\ <>[][\A r \in Reconcilers : ~RecCrash(r)]_vars
    /\ \A r \in Reconcilers :
          /\ WF_vars(RecStep(r))
          /\ \A a \in Attempts :
                /\ SF_vars(RecListProcessing(r) /\ a \in rec'[r].todo)
                /\ SF_vars(RecLookup(r, a) /\ rec'[r].cur = a)

FairSpec == Spec /\ ReconcileFairness

-----------------------------------------------------------------------------
(* Properties.                                                              *)

(* Every variable stays within the values its column or counter can take.   *)
TypeOK ==
    /\ wr \in [Withdrawals -> WithdrawalStatus]
    /\ approvals \in [Withdrawals -> [first : Admins \cup {NoOne}, second : Admins \cup {NoOne}]]
    /\ wallet \in [Users -> Nat]
    /\ refunds \in [Withdrawals -> Nat]
    /\ feeRevenue \subseteq Withdrawals
    /\ status \in [Attempts -> AttemptStatus]
    /\ ref \in [Attempts -> BOOLEAN]
    /\ sub \in [Submitters -> [pc : SubmitPC,
                               wd : Withdrawals \cup {NoOne},
                               att : Attempts \cup {NoOne}]]
    /\ rec \in [Reconcilers -> [stage : {"idle", "crashed", "age", "unknown", "processing"},
                                todo : SUBSET Attempts,
                                cur : Attempts \cup {NoOne},
                                found : {"none", "processing", "completed", "failed"}]]
    /\ provider \in [Attempts -> {"none", "inflight", "held", "finished", "failed"}]

(* A withdrawal is held from its creation until it is paid or given back.   *)
Held(w) == wr[w] \in {"pending", "processing"}
Returned(w) == wr[w] \in {"rejected", "failed"}

(* What a user has asked for and not got back.                              *)
Outstanding(u) == {w \in Withdrawals : Owner[w] = u /\ (Held(w) \/ wr[w] = "completed")}

(* The wallet of each user is what it started with, less the gross amount   *)
(* of every withdrawal still held or paid: across approvals, rejections,    *)
(* failures reported twice, late webhooks and reconciliation runs, no debit *)
(* is lost and no refund is made twice or not at all.                       *)
WalletBalances ==
    \A u \in Users :
       wallet[u] + SumFunctionOnSet(AmountUsd, Outstanding(u)) = InitialBalance[u]

(* A withdrawal that has been given back was given back exactly once, and   *)
(* one that is held or paid was never given back.                           *)
RefundedExactlyWhenReturned ==
    \A w \in Withdrawals : refunds[w] = (IF Returned(w) THEN 1 ELSE 0)

(* The broker books the fee of a withdrawal exactly when it is paid: not    *)
(* while it is in flight, and never for one that is refunded in full.       *)
FeeBookedExactlyWhenPaid ==
    feeRevenue = {w \in Charged : wr[w] = "completed"}

(* The money is never returned to the client's wallet while the provider    *)
(* has, or may still receive, an order to pay it: _apply_confirmed_failure_ *)
(* with_refund() needs a confirmed failure, a timeout or an ambiguous       *)
(* answer is never one.                                                     *)
NeverRefundedWhilePayable ==
    \A a \in Attempts : refunds[a[1]] > 0 => provider[a] \in {"none", "failed"}

(* ... and no thread that already owns the attempt is about to post it.     *)
NeverPostedAfterRefund ==
    \A s \in Submitters : sub[s].pc = "auth" => refunds[sub[s].wd] = 0

(* The three together: a client's money comes back at most once, only when  *)
(* the provider cannot pay it out any more, and no order follows it.        *)
RefundsAreSafe ==
    /\ RefundedExactlyWhenReturned
    /\ NeverRefundedWhilePayable
    /\ NeverPostedAfterRefund

(* The status the client sees is the one derived from the attempt, and a    *)
(* PENDING row never has an attempt, which is what makes a staff retry or a *)
(* rejection of it safe.                                                    *)
WithdrawalMirrorsAttempt ==
    \A w \in Withdrawals :
       LET tried == {n \in 1..MaxAttempts : status[<<w, n>>] # "none"} IN
       IF tried = {} THEN wr[w] \in {"none", "pending", "rejected"}
       ELSE \A n \in tried : wr[w] = derive_withdrawal_status[status[<<w, n>>]]

(* Two submitters racing for one withdrawal, a staff retry, or a retry      *)
(* after a crash never make the provider receive two orders for it.         *)
OneOrderPerWithdrawal ==
    \A a, b \in Attempts :
       a[1] = b[1] /\ provider[a] # "none" /\ provider[b] # "none" => a = b

(* The books agree with the provider: COMPLETED rows were really paid, and  *)
(* rows failed after they were sent were really refused.                    *)
TerminalAgreesWithProvider ==
    \A a \in Attempts :
       /\ status[a] = "completed" => provider[a] = "finished"
       /\ status[a] = "failed" => provider[a] \in {"none", "failed"}

(* What the rows, the fee revenue and the provider say of a withdrawal is   *)
(* one story, told by one order.                                            *)
BooksFollowTheProvider ==
    /\ WithdrawalMirrorsAttempt
    /\ OneOrderPerWithdrawal
    /\ TerminalAgreesWithProvider
    /\ FeeBookedExactlyWhenPaid

(* A withdrawal above $1,000 is only ever submitted after two different     *)
(* administrators approved it, whichever of them raced.                     *)
DualControl ==
    \A w \in DualApproval :
       wr[w] \notin {"none", "pending", "rejected"} =>
          /\ NoOne \notin {approvals[w].first, approvals[w].second}
          /\ approvals[w].first # approvals[w].second

(* An UNKNOWN attempt has no provider_reference, so lookup_payout() answers *)
(* UNSUPPORTED for it and no webhook correlates to it: without an operator  *)
(* it stays UNKNOWN.                                                        *)
UnknownHasNoReference ==
    \A a \in Attempts : status[a] = "unknown" => ~ref[a]

(* What the client was promised (WithdrawalPromise), read off the rows.     *)
Fate(w) ==
    IF Held(w) THEN "held" ELSE IF Returned(w) THEN "returned"
    ELSE IF wr[w] = "completed" THEN "paid" ELSE "none"

Transferred == {w \in Withdrawals : \E n \in 1..MaxAttempts : provider[<<w, n>>] = "finished"}

Promise == INSTANCE WithdrawalPromise WITH
    fate <- [w \in Withdrawals |-> Fate(w)], balance <- wallet, transferred <- Transferred

(* Every behaviour of the payout pipeline keeps the promise: money leaves   *)
(* the wallet once, and is then either paid out or returned, never both.    *)
KeepsPromise == Promise!Spec

(* An attempt that has its provider reference is settled in the books once  *)
(* the provider has settled it, even if every webhook about it is lost.     *)
ReferencedAttemptsSettle ==
    \A a \in Attempts :
       (ref[a] /\ provider[a] \in {"finished", "failed"}) ~> status[a] \in TERMINAL_STATUSES
=============================================================================

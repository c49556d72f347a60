--------------------------- MODULE Payout_proofs ---------------------------
(***************************************************************************)
(* Theorems about Payout, for any number of withdrawals, users, staff and  *)
(* threads, and about its composition with the durable inbox: PayoutInbox  *)
(* refines Payout, so that every invariant of the first half holds of it,  *)
(* and a row marked RESOLVED has been applied.                             *)
(***************************************************************************)
EXTENDS PayoutInbox, SumLemmas, TLAPS

LEMMA Transitions ==
    ASSUME NEW s \in AttemptStatus, NEW new \in ALLOWED_TRANSITIONS[s]
    PROVE  /\ s \in {"submitted", "processing", "unknown"}
           /\ new \in {"processing", "unknown", "completed", "failed"}
           /\ new # s
           /\ new = "unknown" => s = "submitted"
  <1>1. CASE s = "none" BY <1>1 DEF ALLOWED_TRANSITIONS
  <1>2. CASE s = "submitted" BY <1>2 DEF ALLOWED_TRANSITIONS
  <1>3. CASE s = "processing" BY <1>3 DEF ALLOWED_TRANSITIONS
  <1>4. CASE s = "unknown" BY <1>4 DEF ALLOWED_TRANSITIONS
  <1>5. CASE s = "completed" BY <1>5 DEF ALLOWED_TRANSITIONS
  <1>6. CASE s = "failed" BY <1>6 DEF ALLOWED_TRANSITIONS
  <1>. QED BY <1>1, <1>2, <1>3, <1>4, <1>5, <1>6 DEF AttemptStatus

LEMMA Derived ==
    /\ derive_withdrawal_status["submitted"] = "processing"
    /\ derive_withdrawal_status["processing"] = "processing"
    /\ derive_withdrawal_status["unknown"] = "processing"
    /\ derive_withdrawal_status["completed"] = "completed"
    /\ derive_withdrawal_status["failed"] = "failed"
  BY DEF derive_withdrawal_status

LEMMA AttemptPair ==
    ASSUME NEW a \in Attempts
    PROVE  /\ a[1] \in Withdrawals /\ a[2] \in 1..MaxAttempts
           /\ a = <<a[1], a[2]>>
  BY DEF Attempts

-----------------------------------------------------------------------------
(* Each thread past its start knows a withdrawal, each owner an attempt.    *)
ThreadsHaveWork ==
    \A s \in Submitters :
       /\ sub[s].pc # "idle" => sub[s].wd \in Withdrawals
       /\ sub[s].pc \in Owning => sub[s].att \in Attempts /\ sub[s].att[1] = sub[s].wd

(* What applying the status new to attempt a does to the books, when it     *)
(* does anything: the effect shared by submission, webhooks and the         *)
(* reconciliation run.                                                      *)
Settle(a, new) ==
    /\ new \in ALLOWED_TRANSITIONS[status[a]]
    /\ TransitionAndSync(a, new)
    /\ record_withdrawal_fee_revenue(a[1], new)
    /\ \/ new = "failed" /\ Refund(a[1])
       \/ new # "failed" /\ UNCHANGED <<wallet, refunds>>

Books == <<wr, status, money>>

LEMMA ResultSettles ==
    ASSUME NEW a, NEW new, new # "failed", ApplyResultWithoutRefund(a, new)
    PROVE  UNCHANGED Books \/ Settle(a, new)
  BY DEF ApplyResultWithoutRefund, Settle, MayTransition, Books, money

LEMMA FailureSettles ==
    ASSUME NEW a, NEW p, ApplyConfirmedFailureWithRefund(a, p)
    PROVE  UNCHANGED Books \/ Settle(a, "failed")
  <1>1. CASE UNCHANGED <<status, wr, money>>
    BY <1>1 DEF Books, money
  <1>2. CASE /\ MayTransition(a, "failed", p)
             /\ TransitionAndSync(a, "failed")
             /\ Refund(a[1])
             /\ UNCHANGED feeRevenue
    BY <1>2 DEF Settle, MayTransition, record_withdrawal_fee_revenue
  <1>. QED BY <1>1, <1>2 DEF ApplyConfirmedFailureWithRefund

BooksTypeOK ==
    /\ wr \in [Withdrawals -> WithdrawalStatus]
    /\ wallet \in [Users -> Nat]
    /\ refunds \in [Withdrawals -> Nat]
    /\ feeRevenue \subseteq Withdrawals
    /\ status \in [Attempts -> AttemptStatus]

LEMMA RefundTypeOK ==
    ASSUME BooksTypeOK, NEW w \in Withdrawals, Refund(w)
    PROVE  wallet' \in [Users -> Nat] /\ refunds' \in [Withdrawals -> Nat]
  <1>1. Owner[w] \in Users /\ AmountUsd[w] \in Nat
    BY PayoutConstants
  <1>. QED BY <1>1 DEF BooksTypeOK, Refund, credit_wallet

LEMMA SettleTypeOK ==
    ASSUME BooksTypeOK, NEW a \in Attempts, NEW new, Settle(a, new)
    PROVE  BooksTypeOK'
  <1>1. a[1] \in Withdrawals
    BY AttemptPair
  <1>2. new \in {"processing", "unknown", "completed", "failed"}
    BY Transitions DEF BooksTypeOK, Settle
  <1>3. wr' \in [Withdrawals -> WithdrawalStatus]
    BY <1>1, <1>2, Derived DEF BooksTypeOK, Settle, TransitionAndSync, WithdrawalStatus
  <1>4. status' \in [Attempts -> AttemptStatus]
    BY <1>2 DEF BooksTypeOK, Settle, TransitionAndSync, AttemptStatus
  <1>5. feeRevenue' \subseteq Withdrawals
    BY <1>1 DEF BooksTypeOK, Settle, record_withdrawal_fee_revenue
  <1>6. wallet' \in [Users -> Nat] /\ refunds' \in [Withdrawals -> Nat]
    BY <1>1, RefundTypeOK DEF BooksTypeOK, Settle
  <1>. QED BY <1>3, <1>4, <1>5, <1>6 DEF BooksTypeOK

-----------------------------------------------------------------------------
(* Type correctness, with the work of the threads.                          *)
RestTypeOK ==
    /\ approvals \in [Withdrawals -> [first : Admins \cup {NoOne}, second : Admins \cup {NoOne}]]
    /\ ref \in [Attempts -> BOOLEAN]
    /\ provider \in [Attempts -> {"none", "inflight", "held", "finished", "failed"}]

SubTypeOK ==
    /\ sub \in [Submitters -> [pc : SubmitPC,
                               wd : Withdrawals \cup {NoOne},
                               att : Attempts \cup {NoOne}]]
    /\ ThreadsHaveWork

RecTypeOK ==
    rec \in [Reconcilers -> [stage : {"idle", "crashed", "age", "unknown", "processing"},
                             todo : SUBSET Attempts,
                             cur : Attempts \cup {NoOne},
                             found : {"none", "processing", "completed", "failed"}]]

TypeInv == BooksTypeOK /\ RestTypeOK /\ SubTypeOK /\ RecTypeOK

LEMMA SubGotoTypeOK ==
    ASSUME TypeInv, NEW s \in Submitters, NEW pc \in SubmitPC,
           sub[s].pc # "idle", SubGoto(s, pc), UNCHANGED <<wr>>,
           pc \in Owning => sub[s].pc \in Owning
    PROVE  SubTypeOK'
  <1>1. sub' \in [Submitters -> [pc : SubmitPC, wd : Withdrawals \cup {NoOne},
                                 att : Attempts \cup {NoOne}]]
    BY DEF TypeInv, SubTypeOK, SubGoto
  <1>2. ASSUME NEW t \in Submitters
        PROVE  /\ sub'[t].pc # "idle" => sub'[t].wd \in Withdrawals
               /\ sub'[t].pc \in Owning => sub'[t].att \in Attempts /\ sub'[t].att[1] = sub'[t].wd
    BY DEF TypeInv, SubTypeOK, ThreadsHaveWork, SubGoto
  <1>. QED BY <1>1, <1>2 DEF SubTypeOK, ThreadsHaveWork

LEMMA SubDoneTypeOK ==
    ASSUME TypeInv, NEW s \in Submitters, SubDone(s)
    PROVE  SubTypeOK'
  <1>1. sub' \in [Submitters -> [pc : SubmitPC, wd : Withdrawals \cup {NoOne},
                                 att : Attempts \cup {NoOne}]]
    BY DEF TypeInv, SubTypeOK, SubDone, IdleSub, SubmitPC
  <1>2. ASSUME NEW t \in Submitters
        PROVE  /\ sub'[t].pc # "idle" => sub'[t].wd \in Withdrawals
               /\ sub'[t].pc \in Owning => sub'[t].att \in Attempts /\ sub'[t].att[1] = sub'[t].wd
    BY DEF TypeInv, SubTypeOK, ThreadsHaveWork, SubDone, IdleSub, Owning
  <1>. QED BY <1>1, <1>2 DEF SubTypeOK, ThreadsHaveWork

LEMMA TypeInit == Init => TypeInv
  <1> SUFFICES ASSUME Init PROVE TypeInv
    OBVIOUS
  <1>1. BooksTypeOK
    BY PayoutConstants DEF Init, BooksTypeOK, WithdrawalStatus, AttemptStatus
  <1>2. RestTypeOK
    BY DEF Init, RestTypeOK
  <1>3. SubTypeOK
    BY DEF Init, SubTypeOK, IdleSub, SubmitPC, ThreadsHaveWork, Owning
  <1>4. RecTypeOK
    BY DEF Init, RecTypeOK, IdleRec
  <1>. QED BY <1>1, <1>2, <1>3, <1>4 DEF TypeInv

LEMMA TypeRequest ==
    ASSUME TypeInv, Request
    PROVE  TypeInv'
  <1>. USE DEF TypeInv
  <1>1. ASSUME NEW w \in Withdrawals, CreateWithdrawal(w)
        PROVE  TypeInv'
    <2>1. BooksTypeOK'
      <3>1. Owner[w] \in Users /\ AmountUsd[w] \in Nat
        BY PayoutConstants
      <3>2. wallet' \in [Users -> Nat]
        BY <1>1, <3>1 DEF CreateWithdrawal, BooksTypeOK
      <3>3. wr' \in [Withdrawals -> WithdrawalStatus]
        BY <1>1 DEF CreateWithdrawal, BooksTypeOK, WithdrawalStatus
      <3>. QED BY <1>1, <3>2, <3>3 DEF CreateWithdrawal, BooksTypeOK
    <2>2. RestTypeOK' /\ SubTypeOK' /\ RecTypeOK'
      BY <1>1 DEF CreateWithdrawal, RestTypeOK, SubTypeOK, RecTypeOK, ThreadsHaveWork
    <2>. QED BY <2>1, <2>2
  <1>2. ASSUME NEW w \in Withdrawals, RejectWithdrawal(w)
        PROVE  TypeInv'
    <2>1. wr' \in [Withdrawals -> WithdrawalStatus]
      BY <1>2 DEF RejectWithdrawal, BooksTypeOK, WithdrawalStatus
    <2>2. wallet' \in [Users -> Nat] /\ refunds' \in [Withdrawals -> Nat]
      BY <1>2, RefundTypeOK DEF RejectWithdrawal
    <2>3. RestTypeOK' /\ SubTypeOK' /\ RecTypeOK'
      BY <1>2 DEF RejectWithdrawal, RestTypeOK, SubTypeOK, RecTypeOK, ThreadsHaveWork
    <2>. QED BY <1>2, <2>1, <2>2, <2>3 DEF RejectWithdrawal, BooksTypeOK
  <1>3. ASSUME NEW w \in Withdrawals, NEW d \in Admins, FirstApprove(d, w)
        PROVE  TypeInv'
    <2>1. approvals' \in [Withdrawals -> [first : Admins \cup {NoOne}, second : Admins \cup {NoOne}]]
      BY <1>3 DEF FirstApprove, RestTypeOK
    <2>. QED BY <1>3, <2>1 DEF FirstApprove, money, BooksTypeOK, RestTypeOK, SubTypeOK,
                               RecTypeOK, ThreadsHaveWork
  <1>4. ASSUME NEW w \in Withdrawals, NEW s \in Submitters,
               AutoSubmit(s, w) \/ \E d \in Admins : ApproveAndSubmit(s, d, w)
        PROVE  TypeInv'
    <2>1. sub' = [sub EXCEPT ![s] = [pc |-> "preview", wd |-> w, att |-> NoOne]]
      BY <1>4 DEF AutoSubmit, ApproveAndSubmit
    <2>2. SubTypeOK'
      BY <2>1 DEF SubTypeOK, ThreadsHaveWork, SubmitPC, Owning
    <2>3. approvals' \in [Withdrawals -> [first : Admins \cup {NoOne}, second : Admins \cup {NoOne}]]
      BY <1>4 DEF AutoSubmit, ApproveAndSubmit, RestTypeOK
    <2>4. UNCHANGED <<wr, money, status, ref, rec, provider>>
      BY <1>4 DEF AutoSubmit, ApproveAndSubmit
    <2>5. BooksTypeOK' /\ RecTypeOK'
      BY <2>4 DEF money, BooksTypeOK, RecTypeOK
    <2>6. RestTypeOK'
      BY <2>3, <2>4 DEF RestTypeOK
    <2>. QED BY <2>2, <2>5, <2>6
  <1>. QED BY <1>1, <1>2, <1>3, <1>4 DEF Request

LEMMA TypeSubmit ==
    ASSUME TypeInv, Submit
    PROVE  TypeInv'
  <1>. USE DEF TypeInv
  <1>. PICK s \in Submitters :
          \/ SubmitPreview(s) \/ SubmitRefused(s) \/ SubmitClaim(s)
          \/ SubmitAuthFails(s) \/ SubmitPost(s) \/ SubmitResponse(s)
          \/ SubmitSuccess(s) \/ SubmitUnknown(s) \/ SubmitRejected(s)
          \/ SubmitRaises(s) \/ SubmitCrash(s)
    BY DEF Submit
  <1>1. ASSUME SubDone(s), UNCHANGED <<wr, approvals, money, status, ref, rec, provider>>
        PROVE  TypeInv'
    BY <1>1, SubDoneTypeOK DEF money, BooksTypeOK, RestTypeOK, RecTypeOK
  <1>2. ASSUME NEW pc \in SubmitPC, sub[s].pc # "idle", pc \in Owning => sub[s].pc \in Owning,
               SubGoto(s, pc), UNCHANGED <<wr, approvals, money, status, ref, rec, provider>>
        PROVE  TypeInv'
    BY <1>2, SubGotoTypeOK DEF money, BooksTypeOK, RestTypeOK, RecTypeOK
  <1>3. CASE SubmitPreview(s)
    BY <1>1, <1>2, <1>3 DEF SubmitPreview, SubmitPC, Owning
  <1>4. CASE SubmitRefused(s) \/ SubmitRaises(s) \/ SubmitCrash(s)
    BY <1>1, <1>4 DEF SubmitRefused, SubmitRaises, SubmitCrash
  <1>5. CASE SubmitClaim(s)
    <2>. DEFINE w == sub[s].wd
    <2>1. w \in Withdrawals
      BY <1>5 DEF SubmitClaim, SubTypeOK, ThreadsHaveWork
    <2>2. PICK n \in 1..MaxAttempts :
             /\ TransitionAndSync(<<w, n>>, "submitted")
             /\ sub' = [sub EXCEPT ![s] = [pc |-> "auth", wd |-> w, att |-> <<w, n>>]]
      BY <1>5 DEF SubmitClaim
    <2>3. <<w, n>> \in Attempts
      BY <2>1 DEF Attempts
    <2>4. SubTypeOK'
      BY <2>1, <2>2, <2>3 DEF SubTypeOK, ThreadsHaveWork, SubmitPC, Owning
    <2>5. wr' \in [Withdrawals -> WithdrawalStatus]
      BY <2>2, Derived DEF TransitionAndSync, BooksTypeOK, WithdrawalStatus
    <2>6. status' \in [Attempts -> AttemptStatus]
      BY <2>2 DEF TransitionAndSync, BooksTypeOK, AttemptStatus
    <2>7. UNCHANGED <<approvals, money, ref, rec, provider>>
      BY <1>5 DEF SubmitClaim
    <2>. QED BY <2>4, <2>5, <2>6, <2>7 DEF money, BooksTypeOK, RestTypeOK, RecTypeOK
  <1>6. CASE SubmitAuthFails(s)
    BY <1>2, <1>6 DEF SubmitAuthFails, SubmitPC, Owning
  <1>7. CASE SubmitPost(s)
    <2>1. SubTypeOK'
      BY <1>7, SubGotoTypeOK DEF SubmitPost, SubmitPC, Owning
    <2>2. provider' \in [Attempts -> {"none", "inflight", "held", "finished", "failed"}]
      BY <1>7 DEF SubmitPost, RestTypeOK
    <2>. QED BY <1>7, <2>1, <2>2 DEF SubmitPost, money, BooksTypeOK, RestTypeOK, RecTypeOK
  <1>8. CASE SubmitResponse(s)
    BY <1>2, <1>8 DEF SubmitResponse, SubmitPC, Owning
  <1>9. CASE SubmitSuccess(s) \/ SubmitUnknown(s) \/ SubmitRejected(s)
    <2>1. sub[s].att \in Attempts
      BY <1>9 DEF SubmitSuccess, SubmitUnknown, SubmitRejected, SubTypeOK, ThreadsHaveWork, Owning
    <2>2. PICK a \in Attempts : a = sub[s].att
      BY <2>1
    <2>3. UNCHANGED Books \/ \E new : Settle(a, new)
      BY <1>9, <2>2, ResultSettles, FailureSettles
         DEF SubmitSuccess, SubmitUnknown, SubmitRejected, ApplySubmissionSuccess
    <2>4. BooksTypeOK'
      BY <2>3, SettleTypeOK DEF Books, money, BooksTypeOK
    <2>5. ref' \in [Attempts -> BOOLEAN]
      BY <1>9 DEF SubmitSuccess, SubmitUnknown, SubmitRejected, ApplySubmissionSuccess, RestTypeOK
    <2>6. UNCHANGED <<approvals, rec, provider>> /\ SubDone(s)
      BY <1>9 DEF SubmitSuccess, SubmitUnknown, SubmitRejected
    <2>. QED BY <2>4, <2>5, <2>6, SubDoneTypeOK DEF RestTypeOK, RecTypeOK
  <1>. QED BY <1>3, <1>4, <1>5, <1>6, <1>7, <1>8, <1>9

LEMMA TypeProvider ==
    ASSUME TypeInv, Provider
    PROVE  TypeInv'
  <1>. USE DEF TypeInv
  <1>1. provider' \in [Attempts -> {"none", "inflight", "held", "finished", "failed"}]
    BY DEF Provider, ProviderAccepts, ProviderSettles, RestTypeOK
  <1>2. UNCHANGED <<wr, approvals, money, status, ref, sub, rec>>
    BY DEF Provider, ProviderAccepts, ProviderSettles
  <1>. QED BY <1>1, <1>2 DEF money, BooksTypeOK, RestTypeOK, SubTypeOK, RecTypeOK, ThreadsHaveWork

LEMMA TypeWebhook ==
    ASSUME TypeInv, Webhook
    PROVE  TypeInv'
  <1>. USE DEF TypeInv
  <1>1. PICK a \in Attempts : WebhookApplied(a)
    BY DEF Webhook
  <1>2. UNCHANGED Books \/ \E new : Settle(a, new)
    BY <1>1, ResultSettles, FailureSettles DEF WebhookApplied, ApplyAttemptWebhook
  <1>3. BooksTypeOK'
    BY <1>2, SettleTypeOK DEF Books, money, BooksTypeOK
  <1>4. UNCHANGED <<approvals, ref, sub, rec, provider>>
    BY <1>1 DEF WebhookApplied, ApplyAttemptWebhook
  <1>5. RestTypeOK' /\ SubTypeOK' /\ RecTypeOK'
    BY <1>4 DEF RestTypeOK, SubTypeOK, RecTypeOK, ThreadsHaveWork
  <1>. QED BY <1>3, <1>5

LEMMA TypeReconcile ==
    ASSUME TypeInv, Reconcile
    PROVE  TypeInv'
  <1>. USE DEF TypeInv
  <1>. PICK r \in Reconcilers :
          \/ RecStart(r) \/ RecAge(r) \/ RecListUnknown(r) \/ RecListProcessing(r)
          \/ RecEnd(r) \/ RecApply(r) \/ RecRaises(r) \/ RecCrash(r)
          \/ \E a \in Attempts : RecLookup(r, a)
    BY DEF Reconcile
  <1>1. UNCHANGED <<approvals, ref, sub, provider>>
    BY DEF RecStart, RecAge, RecListUnknown, RecListProcessing, RecEnd, RecApply, RecRaises,
           RecCrash, RecLookup
  <1>2. BooksTypeOK'
    <2>1. CASE RecAge(r)
      <3>1. PICK a \in Attempts : ApplyResultWithoutRefund(a, "unknown")
        BY <2>1 DEF RecAge, RecTypeOK
      <3>. QED BY <3>1, ResultSettles, SettleTypeOK DEF Books, money, BooksTypeOK
    <2>2. CASE RecApply(r)
      <3>1. rec[r].cur \in Attempts
        BY <2>2 DEF RecApply, RecTypeOK
      <3>2. PICK a \in Attempts : a = rec[r].cur
        BY <3>1
      <3>3. UNCHANGED Books \/ \E new : Settle(a, new)
        BY <2>2, <3>2, ResultSettles, FailureSettles DEF RecApply, Books
      <3>. QED BY <3>3, SettleTypeOK DEF Books, money, BooksTypeOK
    <2>3. CASE ~RecAge(r) /\ ~RecApply(r)
      <3>1. UNCHANGED Books
        BY <2>3 DEF RecStart, RecListUnknown, RecListProcessing, RecEnd, RecRaises, RecCrash,
                    RecLookup, Books
      <3>. QED BY <3>1 DEF Books, money, BooksTypeOK
    <2>. QED BY <2>1, <2>2, <2>3
  <1>3. RecTypeOK'
    <2>1. CASE RecStart(r) \/ RecListUnknown(r) \/ RecListProcessing(r)
      BY <2>1 DEF RecStart, RecListUnknown, RecListProcessing, Busy, RecTypeOK
    <2>2. CASE RecAge(r) \/ RecApply(r)
      <3>1. \E b \in SUBSET Attempts : rec' = [rec EXCEPT ![r] = Busy(@.stage, b)]
        BY <2>2 DEF RecAge, RecApply, RecTypeOK
      <3>. QED BY <3>1 DEF Busy, RecTypeOK
    <2>3. CASE RecEnd(r) \/ RecRaises(r) \/ RecCrash(r)
      <3>1. \E st \in {"idle", "crashed"} : rec' = [rec EXCEPT ![r] = Busy(st, {})]
        BY <2>3 DEF RecEnd, RecRaises, RecCrash, IdleRec, Busy
      <3>. QED BY <3>1 DEF Busy, RecTypeOK
    <2>4. CASE \E a \in Attempts : RecLookup(r, a)
      <3>1. PICK a \in Attempts : RecLookup(r, a)
        BY <2>4
      <3>2. LookupOutcome(a) \in {"processing", "completed", "failed"}
        BY DEF LookupOutcome
      <3>. QED BY <3>1, <3>2 DEF RecLookup, InStage, Busy, RecTypeOK
    <2>. QED BY <2>1, <2>2, <2>3, <2>4
  <1>4. RestTypeOK' /\ SubTypeOK'
    BY <1>1 DEF RestTypeOK, SubTypeOK, ThreadsHaveWork
  <1>. QED BY <1>2, <1>3, <1>4

-----------------------------------------------------------------------------
(* The inductive invariant.                                                 *)

(* A withdrawal has at most one attempt, and its status is derived from it. *)
AttemptsAndRows ==
    /\ \A a, b \in Attempts :
          a[1] = b[1] /\ status[a] # "none" /\ status[b] # "none" => a = b
    /\ \A a \in Attempts :
          status[a] # "none" => wr[a[1]] = derive_withdrawal_status[status[a]]
    /\ \A w \in Withdrawals :
          wr[w] \notin {"none", "pending", "rejected"} =>
             \E a \in Attempts : a[1] = w /\ status[a] # "none"

BooksInv == AttemptsAndRows /\ RefundedExactlyWhenReturned /\ FeeBookedExactlyWhenPaid

(* An attempt past TXN1 has one owner at most.                              *)
ThreadsInv ==
    /\ \A s \in Submitters : sub[s].pc \in Owning => status[sub[s].att] # "none"
    /\ \A s, t \in Submitters :
          sub[s].pc \in Owning /\ sub[t].pc \in Owning /\ sub[s].att = sub[t].att => s = t

(* What the rows and the program counters say of the provider is true.      *)
ThreadKnows(s) ==
    /\ sub[s].pc \in {"auth", "rejected"} => provider[sub[s].att] = "none"
    /\ sub[s].pc \in {"acked", "acked_no_ref"} => Accepted(sub[s].att)
    /\ sub[s].pc = "auth" => status[sub[s].att] # "failed"

ProviderInv ==
    /\ \A s \in Submitters : ThreadKnows(s)
    /\ \A a \in Attempts :
          /\ ref[a] => status[a] \in {"processing", "completed", "failed"} /\ Accepted(a)
          /\ provider[a] # "none" => status[a] # "none"
    /\ TerminalAgreesWithProvider

(* A run applies to an attempt with a reference what the provider said.     *)
LookupInv ==
    \A r \in Reconcilers :
       rec[r].cur # NoOne =>
          /\ ref[rec[r].cur]
          /\ rec[r].found # "none"
          /\ rec[r].found = "completed" => provider[rec[r].cur] = "finished"
          /\ rec[r].found = "failed" => provider[rec[r].cur] = "failed"

ApprovedBothWays(w) ==
    /\ NoOne \notin {approvals[w].first, approvals[w].second}
    /\ approvals[w].first # approvals[w].second

(* A submitting thread has the approvals of its withdrawal behind it.       *)
ApprovalsInv ==
    /\ \A w \in Withdrawals : approvals[w].second # NoOne => ApprovedBothWays(w)
    /\ \A s \in Submitters :
          sub[s].pc # "idle" /\ sub[s].wd \in DualApproval => ApprovedBothWays(sub[s].wd)
    /\ DualControl

IInv == TypeInv /\ BooksInv /\ ThreadsInv /\ ProviderInv /\ LookupInv /\ ApprovalsInv

LEMMA SettleStatus ==
    ASSUME TypeInv, NEW a \in Attempts, NEW new, Settle(a, new)
    PROVE  /\ status[a] \in {"submitted", "processing", "unknown"}
           /\ new \in {"processing", "unknown", "completed", "failed"}
           /\ new # status[a]
           /\ new = "unknown" => status[a] = "submitted"
           /\ status' = [status EXCEPT ![a] = new]
           /\ status'[a] = new
           /\ \A b \in Attempts \ {a} : status'[b] = status[b]
           /\ \A b \in Attempts : status'[b] # "none" <=> status[b] # "none"
  <1>1. status[a] \in AttemptStatus /\ new \in ALLOWED_TRANSITIONS[status[a]]
    BY DEF TypeInv, BooksTypeOK, Settle
  <1>2. PICK st \in AttemptStatus : st = status[a]
    BY <1>1
  <1>3. status' = [status EXCEPT ![a] = new]
    BY DEF Settle, TransitionAndSync
  <1>. QED BY <1>1, <1>2, <1>3, Transitions DEF TypeInv, BooksTypeOK

LEMMA SettleBooksInv ==
    ASSUME TypeInv, BooksInv, NEW a \in Attempts, NEW new, Settle(a, new)
    PROVE  BooksInv'
  <1>. USE SettleStatus
  <1>. DEFINE w == a[1]
  <1>1. w \in Withdrawals
    BY AttemptPair
  <1>2. wr[w] = "processing"
    BY Derived DEF BooksInv, AttemptsAndRows
  <1>3. wr' = [wr EXCEPT ![w] = derive_withdrawal_status[new]]
    BY DEF Settle, TransitionAndSync
  <1>4. /\ wr'[w] = derive_withdrawal_status[new]
        /\ \A v \in Withdrawals \ {w} : wr'[v] = wr[v]
    BY <1>1, <1>3 DEF TypeInv, BooksTypeOK
  <1>5. AttemptsAndRows'
    <2>1. ASSUME NEW b \in Attempts, NEW c \in Attempts,
                 b[1] = c[1], status'[b] # "none", status'[c] # "none"
          PROVE  b = c
      BY <2>1 DEF BooksInv, AttemptsAndRows
    <2>2. ASSUME NEW b \in Attempts, status'[b] # "none"
          PROVE  wr'[b[1]] = derive_withdrawal_status[status'[b]]
      <3>1. CASE b = a
        BY <3>1, <1>4
      <3>2. CASE b # a
        <4>1. b[1] # w
          BY <2>2, <3>2 DEF BooksInv, AttemptsAndRows
        <4>2. b[1] \in Withdrawals
          BY AttemptPair
        <4>. QED BY <2>2, <3>2, <4>1, <4>2, <1>4 DEF BooksInv, AttemptsAndRows
      <3>. QED BY <3>1, <3>2
    <2>3. ASSUME NEW v \in Withdrawals, wr'[v] \notin {"none", "pending", "rejected"}
          PROVE  \E b \in Attempts : b[1] = v /\ status'[b] # "none"
      <3>1. CASE v = w
        BY <3>1
      <3>2. CASE v # w
        BY <2>3, <3>2, <1>4 DEF BooksInv, AttemptsAndRows
      <3>. QED BY <3>1, <3>2
    <2>. QED BY <2>1, <2>2, <2>3 DEF AttemptsAndRows
  <1>6. RefundedExactlyWhenReturned'
    <2>1. refunds[w] = 0
      BY <1>1, <1>2 DEF BooksInv, RefundedExactlyWhenReturned, Returned
    <2>2. refunds' = [refunds EXCEPT ![w] = IF new = "failed" THEN 1 ELSE 0]
      <3>1. CASE new = "failed"
        BY <3>1, <2>1, <1>1 DEF Settle, Refund, TypeInv, BooksTypeOK
      <3>2. CASE new # "failed"
        BY <3>2, <2>1, <1>1 DEF Settle, TypeInv, BooksTypeOK
      <3>. QED BY <3>1, <3>2
    <2>3. Returned(w)' <=> new = "failed"
      BY <1>4, Derived DEF Returned
    <2>4. \A v \in Withdrawals \ {w} : Returned(v)' <=> Returned(v)
      BY <1>4 DEF Returned
    <2>. QED BY <2>2, <2>3, <2>4, <1>1
             DEF BooksInv, RefundedExactlyWhenReturned, TypeInv, BooksTypeOK
  <1>7. FeeBookedExactlyWhenPaid'
    <2>1. wr'[w] = "completed" <=> new = "completed"
      BY <1>4, Derived
    <2>2. Charged \subseteq Withdrawals
      BY PayoutConstants
    <2>3. feeRevenue' = IF new = "completed" THEN feeRevenue \cup ({w} \cap Charged) ELSE feeRevenue
      BY DEF Settle, record_withdrawal_fee_revenue
    <2>. QED BY <2>1, <2>2, <2>3, <1>1, <1>2, <1>4 DEF BooksInv, FeeBookedExactlyWhenPaid
  <1>. QED BY <1>5, <1>6, <1>7 DEF BooksInv

LEMMA SettleKeeps ==
    ASSUME TypeInv, BooksInv, ThreadsInv, ApprovalsInv, NEW a \in Attempts,
           UNCHANGED Books \/ \E new : Settle(a, new),
           UNCHANGED approvals,
           UNCHANGED sub \/ \E s \in Submitters : SubDone(s)
    PROVE  BooksInv' /\ ThreadsInv' /\ ApprovalsInv'
  <1>1. \A s \in Submitters :
           \/ sub'[s] = sub[s]
           \/ sub'[s].pc = "idle"
    BY DEF SubDone, IdleSub, TypeInv, SubTypeOK
  <1>2. \A b \in Attempts : status'[b] # "none" <=> status[b] # "none"
    BY SettleStatus DEF Books
  <1>3. BooksInv'
    <2>1. CASE UNCHANGED Books
      BY <2>1 DEF Books, money, BooksInv, AttemptsAndRows, RefundedExactlyWhenReturned, Returned,
                  FeeBookedExactlyWhenPaid
    <2>2. CASE \E new : Settle(a, new)
      BY <2>2, SettleBooksInv
    <2>. QED BY <2>1, <2>2
  <1>4. ThreadsInv'
    BY <1>1, <1>2 DEF ThreadsInv, TypeInv, SubTypeOK, ThreadsHaveWork, Owning
  <1>5. ApprovalsInv'
    <2>1. \A w \in Withdrawals : wr'[w] \in {"none", "pending", "rejected"}
                                \/ wr[w] \notin {"none", "pending", "rejected"}
      <3>1. CASE UNCHANGED Books
        BY <3>1 DEF Books
      <3>2. ASSUME NEW new, Settle(a, new)
            PROVE  \A w \in Withdrawals \ {a[1]} : wr'[w] = wr[w]
        BY <3>2 DEF Settle, TransitionAndSync, TypeInv, BooksTypeOK
      <3>3. ASSUME NEW new, Settle(a, new)
            PROVE  wr[a[1]] = "processing"
        BY <3>3, SettleStatus, Derived DEF BooksInv, AttemptsAndRows
      <3>. QED BY <3>1, <3>2, <3>3
    <2>2. DualControl'
      BY <2>1, PayoutConstants DEF ApprovalsInv, DualControl
    <2>3. \A s \in Submitters :
             sub'[s].pc # "idle" /\ sub'[s].wd \in DualApproval => ApprovedBothWays(sub'[s].wd)
      BY <1>1 DEF ApprovalsInv
    <2>. QED BY <2>2, <2>3 DEF ApprovalsInv, ApprovedBothWays
  <1>. QED BY <1>3, <1>4, <1>5

LEMMA SettleKeepsProvider ==
    ASSUME TypeInv, ThreadsInv, ProviderInv, NEW a \in Attempts, NEW new,
           UNCHANGED status \/ Settle(a, new),
           UNCHANGED provider,
           \A s \in Submitters : sub'[s] = sub[s] \/ sub'[s].pc = "idle",
           ref' \in [Attempts -> BOOLEAN],
           \A b \in Attempts :
              ref'[b] => ref[b] \/ (b = a /\ status'[a] \in {"processing", "completed", "failed"} /\ Accepted(a)),
           new = "completed" => provider[a] = "finished",
           new = "failed" => /\ provider[a] \in {"none", "failed"}
                             /\ \A s \in Submitters : sub'[s].pc = "auth" => sub'[s].att # a
    PROVE  ProviderInv'
  <1>1. \A b \in Attempts : status'[b] # "none" <=> status[b] # "none"
    BY SettleStatus
  <1>2. \A b \in Attempts : status'[b] = status[b] \/ (b = a /\ status'[b] = new /\ Settle(a, new))
    BY SettleStatus
  <1>3. ASSUME NEW s \in Submitters
        PROVE  ThreadKnows(s)'
    <2>1. CASE sub'[s].pc = "idle"
      BY <2>1 DEF ThreadKnows
    <2>2. CASE sub'[s] = sub[s]
      <3>1. /\ sub[s].pc \in {"auth", "rejected"} => provider[sub[s].att] = "none"
            /\ sub[s].pc \in {"acked", "acked_no_ref"} => Accepted(sub[s].att)
        BY DEF ProviderInv, ThreadKnows
      <3>2. sub[s].pc = "auth" => status'[sub[s].att] # "failed"
        <4>1. ASSUME sub[s].pc = "auth"
              PROVE  sub[s].att \in Attempts /\ status[sub[s].att] # "failed"
          BY <4>1 DEF TypeInv, SubTypeOK, ThreadsHaveWork, Owning, ProviderInv, ThreadKnows
        <4>. QED BY <2>2, <4>1, <1>2
      <3>. QED BY <2>2, <3>1, <3>2 DEF Accepted, ThreadKnows
    <2>. QED BY <2>1, <2>2
  <1>4. ASSUME NEW b \in Attempts, ref'[b]
        PROVE  status'[b] \in {"processing", "completed", "failed"} /\ Accepted(b)'
    <2>1. CASE ref[b]
      <3>1. status[b] \in {"processing", "completed", "failed"} /\ Accepted(b)
        BY <2>1 DEF ProviderInv, ThreadKnows
      <3>2. status'[b] = status[b] \/ status'[b] \in {"processing", "completed", "failed"}
        BY <3>1, <1>2, SettleStatus
      <3>. QED BY <3>1, <3>2 DEF Accepted
    <2>2. CASE ~ref[b]
      BY <1>4, <2>2 DEF Accepted
    <2>. QED BY <2>1, <2>2
  <1>5. TerminalAgreesWithProvider'
    BY <1>2 DEF ProviderInv, ThreadKnows, TerminalAgreesWithProvider
  <1>6. \A b \in Attempts : provider'[b] # "none" => status'[b] # "none"
    BY <1>1 DEF ProviderInv, ThreadKnows
  <1>. QED BY <1>3, <1>4, <1>5, <1>6 DEF ProviderInv, ThreadKnows

(* What a step leaves of the lookups in flight.                             *)
LEMMA LookupKept ==
    ASSUME TypeInv, LookupInv,
           UNCHANGED provider,
           \A a \in Attempts : ref[a] => ref'[a],
           \A r \in Reconcilers : rec'[r] = rec[r] \/ rec'[r].cur = NoOne
    PROVE  LookupInv'
  BY DEF LookupInv, TypeInv, RecTypeOK

-----------------------------------------------------------------------------
(* Every action preserves the invariant.                                    *)

LEMMA InvInit == Init => IInv
  <1> SUFFICES ASSUME Init PROVE IInv
    OBVIOUS
  <1>1. BooksInv
    <2>1. /\ \A a \in Attempts : status[a] = "none"
          /\ \A w \in Withdrawals : wr[w] = "none" /\ refunds[w] = 0
          /\ feeRevenue = {}
      BY DEF Init
    <2>2. AttemptsAndRows
      BY <2>1 DEF AttemptsAndRows
    <2>3. RefundedExactlyWhenReturned
      BY <2>1 DEF RefundedExactlyWhenReturned, Returned
    <2>4. FeeBookedExactlyWhenPaid
      BY <2>1, PayoutConstants DEF FeeBookedExactlyWhenPaid
    <2>. QED BY <2>2, <2>3, <2>4 DEF BooksInv
  <1>2. ThreadsInv /\ LookupInv
    BY DEF Init, ThreadsInv, LookupInv, IdleSub, IdleRec, Owning
  <1>3. ProviderInv
    BY DEF Init, ProviderInv, ThreadKnows, TerminalAgreesWithProvider, IdleSub, Accepted
  <1>4. ApprovalsInv
    BY PayoutConstants DEF Init, ApprovalsInv, DualControl, ApprovedBothWays, IdleSub
  <1>. QED BY <1>1, <1>2, <1>3, <1>4, TypeInit DEF IInv

LEMMA InvCreateWithdrawal ==
    ASSUME IInv, TypeInv', NEW w \in Withdrawals, CreateWithdrawal(w)
    PROVE  IInv'
  <1>. USE DEF IInv
  <1>1. UNCHANGED <<approvals, refunds, feeRevenue, status, ref, sub, rec, provider>>
    BY DEF CreateWithdrawal
  <1>2. /\ wr[w] = "none" /\ wr'[w] = "pending"
        /\ \A v \in Withdrawals \ {w} : wr'[v] = wr[v]
    BY DEF CreateWithdrawal, TypeInv, BooksTypeOK
  <1>3. BooksInv'
    <2>1. AttemptsAndRows'
      <3>1. \A a \in Attempts : status[a] # "none" => a[1] # w
        BY <1>2, Derived DEF BooksInv, AttemptsAndRows, TypeInv, BooksTypeOK, AttemptStatus
      <3>2. \A a \in Attempts : a[1] \in Withdrawals
        BY AttemptPair
      <3>. QED BY <1>1, <1>2, <3>1, <3>2 DEF BooksInv, AttemptsAndRows
    <2>2. RefundedExactlyWhenReturned'
      BY <1>1, <1>2 DEF BooksInv, RefundedExactlyWhenReturned, Returned
    <2>3. FeeBookedExactlyWhenPaid'
      BY <1>1, <1>2, PayoutConstants DEF BooksInv, FeeBookedExactlyWhenPaid
    <2>. QED BY <2>1, <2>2, <2>3 DEF BooksInv
  <1>4. ThreadsInv' /\ ProviderInv' /\ LookupInv'
    BY <1>1 DEF ThreadsInv, ProviderInv, ThreadKnows, LookupInv, TerminalAgreesWithProvider, Accepted
  <1>5. ApprovalsInv'
    BY <1>1, <1>2, PayoutConstants DEF ApprovalsInv, DualControl, ApprovedBothWays
  <1>. QED BY <1>3, <1>4, <1>5

LEMMA InvRejectWithdrawal ==
    ASSUME IInv, TypeInv', NEW w \in Withdrawals, RejectWithdrawal(w)
    PROVE  IInv'
  <1>. USE DEF IInv
  <1>1. UNCHANGED <<approvals, feeRevenue, status, ref, sub, rec, provider>>
    BY DEF RejectWithdrawal
  <1>2. /\ wr[w] = "pending" /\ wr'[w] = "rejected"
        /\ \A v \in Withdrawals \ {w} : wr'[v] = wr[v]
    BY DEF RejectWithdrawal, TypeInv, BooksTypeOK
  <1>3. BooksInv'
    <2>1. AttemptsAndRows'
      <3>1. \A a \in Attempts : status[a] # "none" => a[1] # w
        BY <1>2, Derived DEF BooksInv, AttemptsAndRows, TypeInv, BooksTypeOK, AttemptStatus
      <3>2. \A a \in Attempts : a[1] \in Withdrawals
        BY AttemptPair
      <3>. QED BY <1>1, <1>2, <3>1, <3>2 DEF BooksInv, AttemptsAndRows
    <2>2. RefundedExactlyWhenReturned'
      BY <1>2 DEF RejectWithdrawal, Refund, BooksInv, RefundedExactlyWhenReturned, Returned,
                  TypeInv, BooksTypeOK
    <2>3. FeeBookedExactlyWhenPaid'
      BY <1>1, <1>2, PayoutConstants DEF BooksInv, FeeBookedExactlyWhenPaid
    <2>. QED BY <2>1, <2>2, <2>3 DEF BooksInv
  <1>4. ThreadsInv' /\ ProviderInv' /\ LookupInv'
    BY <1>1 DEF ThreadsInv, ProviderInv, ThreadKnows, LookupInv, TerminalAgreesWithProvider, Accepted
  <1>5. ApprovalsInv'
    BY <1>1, <1>2, PayoutConstants DEF ApprovalsInv, DualControl, ApprovedBothWays
  <1>. QED BY <1>3, <1>4, <1>5

LEMMA InvFirstApprove ==
    ASSUME IInv, TypeInv', NEW w \in Withdrawals, NEW d \in Admins, FirstApprove(d, w)
    PROVE  IInv'
  <1>. USE DEF IInv
  <1>1. UNCHANGED <<wr, money, status, ref, sub, rec, provider>>
    BY DEF FirstApprove
  <1>2. BooksInv' /\ ThreadsInv' /\ ProviderInv' /\ LookupInv'
    BY <1>1 DEF money, BooksInv, AttemptsAndRows, RefundedExactlyWhenReturned, Returned,
           FeeBookedExactlyWhenPaid, ThreadsInv, ThreadKnows, ProviderInv, LookupInv,
           TerminalAgreesWithProvider, Accepted
  <1>3. ~ApprovedBothWays(w) /\ approvals[w].second = NoOne
    BY DEF FirstApprove, ApprovalsInv, ApprovedBothWays
  <1>4. /\ approvals'[w].second = approvals[w].second
        /\ \A v \in Withdrawals \ {w} : approvals'[v] = approvals[v]
    BY DEF FirstApprove, TypeInv, RestTypeOK
  <1>5. wr[w] = "pending"
    BY DEF FirstApprove
  <1>6. ApprovalsInv'
    <2>1. \A v \in Withdrawals : ApprovedBothWays(v) => ApprovedBothWays(v)'
      BY <1>3, <1>4 DEF ApprovedBothWays
    <2>2. \A v \in Withdrawals : approvals'[v].second # NoOne => ApprovedBothWays(v)'
      BY <2>1, <1>3, <1>4 DEF ApprovalsInv
    <2>3. \A s \in Submitters :
             sub'[s].pc # "idle" /\ sub'[s].wd \in DualApproval => ApprovedBothWays(sub[s].wd)'
      BY <2>1, <1>1, PayoutConstants DEF ApprovalsInv
    <2>4. DualControl'
      BY <1>1, <1>4, <1>5, PayoutConstants DEF ApprovalsInv, DualControl
    <2>. QED BY <1>1, <2>2, <2>3, <2>4 DEF ApprovalsInv, ApprovedBothWays
  <1>. QED BY <1>2, <1>6

(* A thread that has read a PENDING row owns nothing yet.                   *)
LEMMA InvStartSubmit ==
    ASSUME IInv, TypeInv', NEW w \in Withdrawals, NEW s \in Submitters,
           AutoSubmit(s, w) \/ \E d \in Admins : ApproveAndSubmit(s, d, w)
    PROVE  IInv'
  <1>. USE DEF IInv
  <1>1. UNCHANGED <<wr, money, status, ref, rec, provider>>
    BY DEF AutoSubmit, ApproveAndSubmit
  <1>2. sub' = [sub EXCEPT ![s] = [pc |-> "preview", wd |-> w, att |-> NoOne]]
    BY DEF AutoSubmit, ApproveAndSubmit
  <1>3. /\ sub'[s].pc = "preview" /\ sub'[s].wd = w
        /\ \A t \in Submitters \ {s} : sub'[t] = sub[t]
    BY <1>2 DEF TypeInv, SubTypeOK
  <1>4. BooksInv' /\ LookupInv'
    BY <1>1 DEF money, BooksInv, AttemptsAndRows, RefundedExactlyWhenReturned, Returned,
           FeeBookedExactlyWhenPaid, LookupInv
  <1>5. ThreadsInv'
    BY <1>1, <1>3 DEF ThreadsInv, Owning
  <1>6. ProviderInv'
    <2>1. ASSUME NEW t \in Submitters
          PROVE  ThreadKnows(t)'
      BY <1>1, <1>3 DEF ProviderInv, ThreadKnows, Accepted
    <2>. QED BY <1>1, <2>1 DEF ProviderInv, ThreadKnows, TerminalAgreesWithProvider, Accepted
  <1>7. \A v \in Withdrawals : ApprovedBothWays(v) => ApprovedBothWays(v)' /\ approvals'[v] = approvals[v]
    <2>1. CASE AutoSubmit(s, w)
      BY <2>1 DEF AutoSubmit, ApprovedBothWays
    <2>2. ASSUME NEW d \in Admins, ApproveAndSubmit(s, d, w)
          PROVE  \A v \in Withdrawals : ApprovedBothWays(v) => approvals'[v] = approvals[v]
      <3>1. approvals[w].second = NoOne \/ approvals' = approvals \/ approvals' = [approvals EXCEPT ![w].second = @]
        BY <2>2 DEF ApproveAndSubmit
      <3>. QED BY <2>2, <3>1 DEF ApproveAndSubmit, ApprovedBothWays, TypeInv, RestTypeOK
    <2>. QED BY <2>1, <2>2 DEF ApprovedBothWays
  <1>8. w \in DualApproval => ApprovedBothWays(w)'
    <2>1. CASE AutoSubmit(s, w)
      BY <2>1 DEF AutoSubmit
    <2>2. ASSUME NEW d \in Admins, ApproveAndSubmit(s, d, w), w \in DualApproval
          PROVE  ApprovedBothWays(w)'
      <3>1. approvals[w].first \notin {NoOne, d}
        BY <2>2 DEF ApproveAndSubmit
      <3>2. CASE approvals[w].second = NoOne
        <4>1. /\ approvals'[w].first = approvals[w].first
              /\ approvals'[w].second = d
          BY <2>2, <3>2 DEF ApproveAndSubmit, TypeInv, RestTypeOK
        <4>. QED BY <3>1, <4>1, PayoutConstants DEF ApprovedBothWays
      <3>3. CASE approvals[w].second # NoOne
        BY <3>3, <1>7 DEF ApprovalsInv
      <3>. QED BY <3>2, <3>3
    <2>. QED BY <2>1, <2>2
  <1>9. ApprovalsInv'
    <2>1. \A v \in Withdrawals : approvals'[v].second # NoOne => ApprovedBothWays(v)'
      <3>1. \A v \in Withdrawals \ {w} : approvals'[v] = approvals[v]
        BY DEF AutoSubmit, ApproveAndSubmit, TypeInv, RestTypeOK
      <3>2. w \notin DualApproval => approvals' = approvals
        BY DEF AutoSubmit, ApproveAndSubmit
      <3>. QED BY <3>1, <3>2, <1>7, <1>8 DEF ApprovalsInv
    <2>2. ASSUME NEW t \in Submitters, sub'[t].pc # "idle", sub'[t].wd \in DualApproval
          PROVE  ApprovedBothWays(sub[t].wd)'
      <3>1. CASE t = s
        BY <3>1, <2>2, <1>3, <1>8 DEF ApprovedBothWays
      <3>2. CASE t # s
        <4>1. sub'[t] = sub[t] /\ sub[t].wd \in Withdrawals
          BY <3>2, <2>2, <1>3, PayoutConstants
        <4>. QED BY <4>1, <2>2, <1>7 DEF ApprovalsInv, ApprovedBothWays
      <3>. QED BY <3>1, <3>2
    <2>3. DualControl'
      BY <1>1, <1>7, PayoutConstants DEF ApprovalsInv, DualControl, ApprovedBothWays
    <2>. QED BY <2>1, <2>2, <2>3 DEF ApprovalsInv, ApprovedBothWays
  <1>. QED BY <1>4, <1>5, <1>6, <1>9

LEMMA InvRequest ==
    ASSUME IInv, TypeInv', Request
    PROVE  IInv'
  BY InvCreateWithdrawal, InvRejectWithdrawal, InvFirstApprove, InvStartSubmit DEF Request

-----------------------------------------------------------------------------
(* A thread that ends without having written anything.                      *)
LEMMA InvSubDone ==
    ASSUME IInv, TypeInv', NEW s \in Submitters, SubDone(s),
           UNCHANGED <<wr, approvals, money, status, ref, rec, provider>>
    PROVE  IInv'
  <1>. USE DEF IInv
  <1>1. \A t \in Submitters : sub'[t] = sub[t] \/ sub'[t].pc = "idle"
    BY DEF SubDone, IdleSub, TypeInv, SubTypeOK
  <1>2. BooksInv' /\ LookupInv'
    BY DEF money, BooksInv, AttemptsAndRows, RefundedExactlyWhenReturned, Returned,
           FeeBookedExactlyWhenPaid, LookupInv
  <1>3. ThreadsInv'
    BY <1>1 DEF ThreadsInv, Owning
  <1>4. ProviderInv'
    <2>1. ASSUME NEW t \in Submitters
          PROVE  ThreadKnows(t)'
      BY <1>1 DEF ProviderInv, ThreadKnows, Accepted
    <2>. QED BY <2>1 DEF ProviderInv, ThreadKnows, TerminalAgreesWithProvider, Accepted
  <1>5. ApprovalsInv'
    BY <1>1 DEF ApprovalsInv, DualControl, ApprovedBothWays
  <1>. QED BY <1>2, <1>3, <1>4, <1>5

(* A thread that goes on without having written anything, and without       *)
(* coming to own an attempt.                                                *)
LEMMA InvSubGoto ==
    ASSUME IInv, TypeInv', NEW s \in Submitters, NEW pc \in SubmitPC,
           sub[s].pc # "idle", SubGoto(s, pc),
           pc \in Owning => sub[s].pc \in Owning,
           pc # "auth",
           pc = "rejected" => sub[s].pc = "auth",
           pc \in {"acked", "acked_no_ref"} => Accepted(sub[s].att),
           UNCHANGED <<wr, approvals, money, status, ref, rec>>,
           \/ UNCHANGED provider
           \/ pc = "sent" /\ sub[s].pc = "auth" /\ provider' = [provider EXCEPT ![sub[s].att] = "inflight"]
    PROVE  IInv'
  <1>. USE DEF IInv
  <1>1. /\ sub'[s].pc = pc /\ sub'[s].wd = sub[s].wd /\ sub'[s].att = sub[s].att
        /\ \A t \in Submitters \ {s} : sub'[t] = sub[t]
    BY DEF SubGoto, TypeInv, SubTypeOK
  <1>2. BooksInv'
    BY DEF money, BooksInv, AttemptsAndRows, RefundedExactlyWhenReturned, Returned,
           FeeBookedExactlyWhenPaid
  <1>3. ThreadsInv'
    BY <1>1 DEF ThreadsInv
  <1>4. ApprovalsInv'
    BY <1>1 DEF ApprovalsInv, DualControl, ApprovedBothWays
  <1>5. CASE UNCHANGED provider
    <2>1. LookupInv'
      BY <1>5 DEF LookupInv
    <2>2. ASSUME NEW t \in Submitters
          PROVE  ThreadKnows(t)'
      BY <1>1, <1>5 DEF ProviderInv, ThreadKnows, Accepted
    <2>3. ProviderInv'
      BY <1>5, <2>2 DEF ProviderInv, ThreadKnows, TerminalAgreesWithProvider, Accepted
    <2>. QED BY <1>2, <1>3, <1>4, <2>1, <2>3
  <1>6. CASE pc = "sent" /\ sub[s].pc = "auth" /\ provider' = [provider EXCEPT ![sub[s].att] = "inflight"]
    <2>1. sub[s].att \in Attempts
      BY <1>6 DEF TypeInv, SubTypeOK, ThreadsHaveWork, Owning
    <2>2. PICK a \in Attempts : a = sub[s].att
      BY <2>1
    <2>3. /\ provider[a] = "none" /\ provider'[a] = "inflight"
          /\ \A b \in Attempts \ {a} : provider'[b] = provider[b]
          /\ status[a] \notin {"none", "failed"}
      BY <1>6, <2>2 DEF TypeInv, RestTypeOK, ProviderInv, ThreadKnows, ThreadsInv, Owning
    <2>4. LookupInv'
      BY <2>3 DEF LookupInv, TypeInv, RecTypeOK
    <2>5. ASSUME NEW t \in Submitters, t # s
          PROVE  ThreadKnows(t)'
      <3>1. sub[t].pc \in Owning => sub[t].att \in Attempts /\ sub[t].att # a
        BY <2>2, <2>5, <1>6 DEF ThreadsInv, TypeInv, SubTypeOK, ThreadsHaveWork, Owning
      <3>. QED BY <1>1, <2>3, <2>5, <3>1 DEF ProviderInv, ThreadKnows, Accepted, Owning
    <2>6. ~ref[a] /\ status[a] # "completed"
      BY <2>3 DEF ProviderInv, ThreadKnows, Accepted, TerminalAgreesWithProvider
    <2>7. /\ \A b \in Attempts :
                /\ ref'[b] => status'[b] \in {"processing", "completed", "failed"} /\ Accepted(b)'
                /\ provider'[b] # "none" => status'[b] # "none"
          /\ TerminalAgreesWithProvider'
      BY <2>3, <2>6 DEF ProviderInv, ThreadKnows, TerminalAgreesWithProvider, Accepted
    <2>8. ProviderInv'
      BY <1>1, <1>6, <2>5, <2>7 DEF ProviderInv, ThreadKnows
    <2>. QED BY <1>2, <1>3, <1>4, <2>4, <2>8
  <1>. QED BY <1>5, <1>6

(* TXN1: the row was PENDING, so the withdrawal had no attempt at all.      *)
LEMMA InvSubmitClaim ==
    ASSUME IInv, TypeInv', NEW s \in Submitters, SubmitClaim(s)
    PROVE  IInv'
  <1>. USE DEF IInv
  <1>. DEFINE w == sub[s].wd
  <1>1. w \in Withdrawals /\ wr[w] = "pending"
    BY DEF SubmitClaim, Claimable, TypeInv, SubTypeOK, ThreadsHaveWork
  <1>2. PICK n \in 1..MaxAttempts :
           /\ TransitionAndSync(<<w, n>>, "submitted")
           /\ sub' = [sub EXCEPT ![s] = [pc |-> "auth", wd |-> w, att |-> <<w, n>>]]
    BY DEF SubmitClaim
  <1>3. PICK a \in Attempts : a = <<w, n>>
    BY <1>1 DEF Attempts
  <1>4. UNCHANGED <<approvals, money, ref, rec, provider>>
    BY DEF SubmitClaim
  <1>5. \A b \in Attempts : b[1] = w => status[b] = "none"
    BY <1>1, Derived DEF BooksInv, AttemptsAndRows, TypeInv, BooksTypeOK, AttemptStatus
  <1>6. a[1] = w /\ status[a] = "none"
    BY <1>3, <1>5
  <1>7. /\ status'[a] = "submitted" /\ \A b \in Attempts \ {a} : status'[b] = status[b]
        /\ wr'[w] = "processing" /\ \A v \in Withdrawals \ {w} : wr'[v] = wr[v]
    BY <1>1, <1>2, <1>3, Derived DEF TransitionAndSync, TypeInv, BooksTypeOK
  <1>8. /\ sub'[s].pc = "auth" /\ sub'[s].wd = w /\ sub'[s].att = a
        /\ \A t \in Submitters \ {s} : sub'[t] = sub[t]
    BY <1>2, <1>3 DEF TypeInv, SubTypeOK
  <1>9. provider[a] = "none" /\ ~ref[a]
    BY <1>6 DEF ProviderInv, Accepted
  <1>10. BooksInv'
    <2>1. \A b \in Attempts : b[1] \in Withdrawals
      BY AttemptPair
    <2>2. AttemptsAndRows'
      BY <1>5, <1>6, <1>7, <2>1, Derived DEF BooksInv, AttemptsAndRows
    <2>3. RefundedExactlyWhenReturned'
      BY <1>1, <1>4, <1>7 DEF BooksInv, RefundedExactlyWhenReturned, Returned, money
    <2>4. FeeBookedExactlyWhenPaid'
      BY <1>1, <1>4, <1>7, PayoutConstants DEF BooksInv, FeeBookedExactlyWhenPaid, money
    <2>. QED BY <2>2, <2>3, <2>4 DEF BooksInv
  <1>11. ThreadsInv'
    <2>1. \A t \in Submitters \ {s} : sub[t].pc \in Owning =>
                /\ sub[t].att \in Attempts /\ sub[t].att # a /\ status[sub[t].att] # "none"
      BY <1>6 DEF ThreadsInv, TypeInv, SubTypeOK, ThreadsHaveWork
    <2>. QED BY <1>7, <1>8, <2>1 DEF ThreadsInv, Owning
  <1>12. ProviderInv'
    <2>1. ThreadKnows(s)'
      BY <1>4, <1>7, <1>8, <1>9 DEF ThreadKnows
    <2>2. ASSUME NEW t \in Submitters, t # s
          PROVE  ThreadKnows(t)'
      <3>1. sub'[t] = sub[t] /\ (sub[t].pc = "auth" => sub[t].att \in Attempts)
        BY <2>2, <1>8 DEF TypeInv, SubTypeOK, ThreadsHaveWork, Owning
      <3>. QED BY <3>1, <1>4, <1>7 DEF ProviderInv, ThreadKnows, Accepted
    <2>3. \A b \in Attempts :
             /\ ref'[b] => status'[b] \in {"processing", "completed", "failed"} /\ Accepted(b)'
             /\ provider'[b] # "none" => status'[b] # "none"
      BY <1>4, <1>7, <1>9 DEF ProviderInv, Accepted
    <2>4. TerminalAgreesWithProvider'
      BY <1>4, <1>7 DEF ProviderInv, TerminalAgreesWithProvider
    <2>. QED BY <2>1, <2>2, <2>3, <2>4 DEF ProviderInv
  <1>13. LookupInv'
    BY <1>4 DEF LookupInv
  <1>14. ApprovalsInv'
    <2>1. w \in DualApproval => ApprovedBothWays(w)
      BY DEF SubmitClaim, ApprovalsInv
    <2>2. DualControl'
      BY <1>4, <1>7, <2>1, PayoutConstants DEF ApprovalsInv, DualControl, ApprovedBothWays
    <2>. QED BY <1>4, <1>8, <2>1, <2>2 DEF ApprovalsInv, ApprovedBothWays
  <1>. QED BY <1>10, <1>11, <1>12, <1>13, <1>14

(* TXN2: the owner applies the answer and ends.                             *)
LEMMA InvSubmitAnswer ==
    ASSUME IInv, TypeInv', NEW s \in Submitters,
           SubmitSuccess(s) \/ SubmitUnknown(s) \/ SubmitRejected(s)
    PROVE  IInv'
  <1>. USE DEF IInv
  <1>1. SubDone(s) /\ UNCHANGED <<approvals, rec, provider>>
    BY DEF SubmitSuccess, SubmitUnknown, SubmitRejected
  <1>2. \A t \in Submitters : sub'[t] = sub[t] \/ sub'[t].pc = "idle"
    BY <1>1 DEF SubDone, IdleSub, TypeInv, SubTypeOK
  <1>3. sub'[s].pc = "idle" /\ sub[s].pc \in Owning
    BY <1>1 DEF SubDone, IdleSub, TypeInv, SubTypeOK, SubmitSuccess, SubmitUnknown,
                SubmitRejected, Owning
  <1>4. PICK a \in Attempts : a = sub[s].att
    BY <1>3 DEF TypeInv, SubTypeOK, ThreadsHaveWork
  <1>5. \A t \in Submitters : sub'[t].pc = "auth" => sub'[t].att # a
    BY <1>2, <1>3, <1>4 DEF ThreadsInv, Owning
  <1>6. UNCHANGED Books \/ \E new : Settle(a, new)
    BY <1>4, ResultSettles, FailureSettles
       DEF SubmitSuccess, SubmitUnknown, SubmitRejected, ApplySubmissionSuccess
  <1>7. BooksInv' /\ ThreadsInv' /\ ApprovalsInv'
    BY <1>1, <1>6, SettleKeeps
  <1>8. ref' \in [Attempts -> BOOLEAN]
    BY DEF TypeInv, RestTypeOK
  <1>9. CASE SubmitSuccess(s)
    <2>1. ApplySubmissionSuccess(a, sub[s].pc = "acked") /\ Accepted(a)
      BY <1>4, <1>9 DEF SubmitSuccess, ProviderInv, ThreadKnows
    <2>2. /\ UNCHANGED status \/ Settle(a, "processing")
          /\ status[a] \in TERMINAL_STATUSES \/ Settle(a, "processing")
      BY <2>1, ResultSettles DEF ApplySubmissionSuccess, ApplyResultWithoutRefund, Settle, MayTransition
    <2>3. \A b \in Attempts \ {a} : ref'[b] = ref[b]
      BY <2>1 DEF ApplySubmissionSuccess, TypeInv, RestTypeOK
    <2>4. ref'[a] = ref[a] \/ Settle(a, "processing")
      BY <2>1, <2>2 DEF ApplySubmissionSuccess, TypeInv, RestTypeOK
    <2>5. ref[a] => ref'[a]
      BY <2>4, SettleStatus DEF ProviderInv
    <2>6. ProviderInv'
      BY <1>1, <1>2, <1>8, <2>1, <2>2, <2>3, <2>4, SettleStatus, SettleKeepsProvider
    <2>7. LookupInv'
      BY <1>1, <2>3, <2>5, LookupKept
    <2>. QED BY <1>7, <2>6, <2>7
  <1>10. CASE SubmitUnknown(s)
    <2>1. UNCHANGED ref /\ (UNCHANGED status \/ Settle(a, "unknown"))
      BY <1>4, <1>10, ResultSettles DEF SubmitUnknown, Books
    <2>2. ProviderInv'
      BY <1>1, <1>2, <1>8, <2>1, SettleKeepsProvider
    <2>3. LookupInv'
      BY <1>1, <2>1, LookupKept
    <2>. QED BY <1>7, <2>2, <2>3
  <1>11. CASE SubmitRejected(s)
    <2>1. UNCHANGED ref /\ (UNCHANGED status \/ Settle(a, "failed"))
      BY <1>4, <1>11, FailureSettles DEF SubmitRejected, Books
    <2>2. provider[a] = "none"
      BY <1>4, <1>11 DEF SubmitRejected, ProviderInv, ThreadKnows
    <2>3. ProviderInv'
      BY <1>1, <1>2, <1>5, <1>8, <2>1, <2>2, SettleKeepsProvider
    <2>4. LookupInv'
      BY <1>1, <2>1, LookupKept
    <2>. QED BY <1>7, <2>3, <2>4
  <1>. QED BY <1>9, <1>10, <1>11

LEMMA InvSubmit ==
    ASSUME IInv, TypeInv', Submit
    PROVE  IInv'
  <1>. PICK s \in Submitters :
          \/ SubmitPreview(s) \/ SubmitRefused(s) \/ SubmitClaim(s)
          \/ SubmitAuthFails(s) \/ SubmitPost(s) \/ SubmitResponse(s)
          \/ SubmitSuccess(s) \/ SubmitUnknown(s) \/ SubmitRejected(s)
          \/ SubmitRaises(s) \/ SubmitCrash(s)
    BY DEF Submit
  <1>1. CASE SubmitPreview(s)
    BY <1>1, InvSubDone, InvSubGoto DEF SubmitPreview, SubmitPC, Owning
  <1>2. CASE SubmitRefused(s) \/ SubmitRaises(s) \/ SubmitCrash(s)
    BY <1>2, InvSubDone DEF SubmitRefused, SubmitRaises, SubmitCrash
  <1>3. CASE SubmitAuthFails(s) \/ SubmitPost(s)
    BY <1>3, InvSubGoto DEF SubmitAuthFails, SubmitPost, SubmitPC, Owning
  <1>4. CASE SubmitResponse(s)
    BY <1>4, InvSubGoto DEF SubmitResponse, SubmitPC, Owning
  <1>. QED BY <1>1, <1>2, <1>3, <1>4, InvSubmitClaim, InvSubmitAnswer

LEMMA InvProvider ==
    ASSUME IInv, TypeInv', Provider
    PROVE  IInv'
  <1>. USE DEF IInv
  <1>1. UNCHANGED <<wr, approvals, money, status, ref, sub, rec>>
    BY DEF Provider, ProviderAccepts, ProviderSettles
  <1>2. PICK a \in Attempts :
           /\ provider[a] \in {"inflight", "held"}
           /\ provider'[a] \in {"held", "finished", "failed"}
           /\ \A b \in Attempts \ {a} : provider'[b] = provider[b]
    BY DEF Provider, ProviderAccepts, ProviderSettles, TypeInv, RestTypeOK
  <1>3. BooksInv' /\ ThreadsInv' /\ ApprovalsInv'
    BY <1>1 DEF money, BooksInv, AttemptsAndRows, RefundedExactlyWhenReturned, Returned,
           FeeBookedExactlyWhenPaid, ThreadsInv, ApprovalsInv, DualControl, ApprovedBothWays
  <1>4. \A b \in Attempts : Accepted(b) => Accepted(b)'
    BY <1>2 DEF Accepted
  <1>5. ProviderInv'
    <2>1. ASSUME NEW s \in Submitters
          PROVE  ThreadKnows(s)'
      <3>1. sub[s].pc \in Owning => sub[s].att \in Attempts
        BY DEF TypeInv, SubTypeOK, ThreadsHaveWork
      <3>2. ThreadKnows(s)
        BY DEF ProviderInv
      <3>3. sub[s].pc \in {"acked", "acked_no_ref"} => Accepted(sub[s].att)'
        BY <1>1, <1>4, <3>1, <3>2 DEF ThreadKnows, Owning
      <3>. QED BY <1>1, <1>2, <3>1, <3>2, <3>3 DEF ThreadKnows, Owning, Accepted
    <2>. QED BY <1>1, <1>2, <1>4, <2>1 DEF ProviderInv, TerminalAgreesWithProvider
  <1>6. LookupInv'
    BY <1>1, <1>2 DEF LookupInv, TypeInv, RecTypeOK
  <1>. QED BY <1>3, <1>5, <1>6

LEMMA InvWebhook ==
    ASSUME IInv, TypeInv', Webhook
    PROVE  IInv'
  <1>. USE DEF IInv
  <1>1. PICK a \in Attempts, new \in {"processing", "completed", "failed"} :
           ref[a] /\ Evidence(a, new) /\ ApplyAttemptWebhook(a, new)
    BY DEF Webhook, WebhookApplied
  <1>2. UNCHANGED <<approvals, ref, sub, rec, provider>>
    BY DEF Webhook, WebhookApplied, ApplyAttemptWebhook
  <1>3. UNCHANGED Books \/ Settle(a, new)
    BY <1>1, ResultSettles, FailureSettles DEF ApplyAttemptWebhook
  <1>4. BooksInv' /\ ThreadsInv' /\ ApprovalsInv'
    BY <1>2, <1>3, SettleKeeps
  <1>5. \A s \in Submitters : sub[s].pc = "auth" => sub[s].att # a
    BY <1>1 DEF ProviderInv, ThreadKnows, Accepted
  <1>6. ref' \in [Attempts -> BOOLEAN]
    BY DEF TypeInv, RestTypeOK
  <1>7. /\ new = "completed" => provider[a] = "finished"
        /\ new = "failed" => provider[a] = "failed"
    BY <1>1 DEF Evidence
  <1>8. ProviderInv'
    BY <1>2, <1>3, <1>5, <1>6, <1>7, SettleKeepsProvider DEF Books
  <1>9. LookupInv'
    BY <1>2, LookupKept
  <1>. QED BY <1>4, <1>8, <1>9

LEMMA InvReconcile ==
    ASSUME IInv, TypeInv', Reconcile
    PROVE  IInv'
  <1>. USE DEF IInv
  <1>. PICK r \in Reconcilers :
          \/ RecStart(r) \/ RecAge(r) \/ RecListUnknown(r) \/ RecListProcessing(r)
          \/ RecEnd(r) \/ RecApply(r) \/ RecRaises(r) \/ RecCrash(r)
          \/ \E a \in Attempts : RecLookup(r, a)
    BY DEF Reconcile
  <1>1. UNCHANGED <<approvals, ref, sub, provider>>
    BY DEF RecStart, RecAge, RecListUnknown, RecListProcessing, RecEnd, RecApply, RecRaises,
           RecCrash, RecLookup
  <1>2. ref' \in [Attempts -> BOOLEAN]
    BY DEF TypeInv, RestTypeOK
  <1>3. CASE RecAge(r)
    <2>1. PICK a \in Attempts :
             /\ ApplyResultWithoutRefund(a, "unknown")
             /\ rec' = [rec EXCEPT ![r] = Busy(@.stage, @.todo \ {a})]
      BY <1>3 DEF RecAge, TypeInv, RecTypeOK
    <2>2. UNCHANGED Books \/ Settle(a, "unknown")
      BY <2>1, ResultSettles
    <2>3. BooksInv' /\ ThreadsInv' /\ ApprovalsInv'
      BY <1>1, <2>2, SettleKeeps
    <2>4. ProviderInv'
      BY <1>1, <1>2, <2>2, SettleKeepsProvider DEF Books
    <2>5. \A q \in Reconcilers : rec'[q] = rec[q] \/ rec'[q].cur = NoOne
      BY <2>1 DEF Busy, TypeInv, RecTypeOK
    <2>6. LookupInv'
      BY <1>1, <2>5, LookupKept
    <2>. QED BY <2>3, <2>4, <2>6
  <1>4. CASE RecApply(r)
    <2>1. rec[r].cur \in Attempts
      BY <1>4 DEF RecApply, TypeInv, RecTypeOK
    <2>2. PICK a \in Attempts : a = rec[r].cur
      BY <2>1
    <2>3. PICK new \in {"none", "processing", "completed", "failed"} : new = rec[r].found
      BY DEF TypeInv, RecTypeOK
    <2>4. UNCHANGED Books \/ Settle(a, new)
      BY <1>4, <2>2, <2>3, ResultSettles, FailureSettles DEF RecApply, Books
    <2>5. /\ ref[a]
          /\ new = "completed" => provider[a] = "finished"
          /\ new = "failed" => provider[a] = "failed"
      BY <1>4, <2>2, <2>3 DEF RecApply, LookupInv
    <2>6. \A s \in Submitters : sub[s].pc = "auth" => sub[s].att # a
      BY <2>5 DEF ProviderInv, ThreadKnows, Accepted
    <2>7. BooksInv' /\ ThreadsInv' /\ ApprovalsInv'
      BY <1>1, <2>4, SettleKeeps
    <2>8. ProviderInv'
      BY <1>1, <1>2, <2>4, <2>5, <2>6, SettleKeepsProvider DEF Books
    <2>9. \A q \in Reconcilers : rec'[q] = rec[q] \/ rec'[q].cur = NoOne
      BY <1>4 DEF RecApply, Busy, TypeInv, RecTypeOK
    <2>10. LookupInv'
      BY <1>1, <2>9, LookupKept
    <2>. QED BY <2>7, <2>8, <2>10
  <1>5. CASE ~RecAge(r) /\ ~RecApply(r)
    <2>1. UNCHANGED <<wr, approvals, money, status, ref, sub, provider>>
      BY <1>5 DEF RecStart, RecListUnknown, RecListProcessing, RecEnd, RecRaises, RecCrash, RecLookup
    <2>2. BooksInv' /\ ThreadsInv' /\ ProviderInv' /\ ApprovalsInv'
      BY <2>1 DEF money, BooksInv, AttemptsAndRows, RefundedExactlyWhenReturned, Returned,
             FeeBookedExactlyWhenPaid, ThreadsInv, ProviderInv, ThreadKnows, Accepted,
             TerminalAgreesWithProvider, ApprovalsInv, DualControl, ApprovedBothWays
    <2>3. CASE \E a \in Attempts : RecLookup(r, a)
      <3>1. PICK a \in Attempts :
               \/ rec' = [rec EXCEPT ![r] = Busy(@.stage, @.todo \ {a})]
               \/ /\ ref[a]
                  /\ rec' = [rec EXCEPT ![r] = [stage |-> @.stage, todo |-> @.todo \ {a},
                                                cur |-> a, found |-> LookupOutcome(a)]]
        BY <2>3 DEF RecLookup
      <3>2. ASSUME NEW q \in Reconcilers, q # r \/ rec'[r].cur = NoOne
            PROVE  rec'[q] = rec[q] \/ rec'[q].cur = NoOne
        BY <3>1, <3>2 DEF Busy, TypeInv, RecTypeOK
      <3>3. ASSUME rec'[r].cur = NoOne
            PROVE  LookupInv'
        BY <2>1, <3>2, <3>3, LookupKept
      <3>4. ASSUME rec'[r].cur # NoOne
            PROVE  LookupInv'
        <4>1. ref[a] /\ rec'[r].cur = a /\ rec'[r].found = LookupOutcome(a)
          BY <3>1, <3>4 DEF Busy, TypeInv, RecTypeOK
        <4>2. LookupOutcome(a) # "none"
              /\ (LookupOutcome(a) = "completed" => provider[a] = "finished")
              /\ (LookupOutcome(a) = "failed" => provider[a] = "failed")
          BY DEF LookupOutcome
        <4>. QED BY <2>1, <3>2, <4>1, <4>2 DEF LookupInv
      <3>. QED BY <2>2, <3>3, <3>4
    <2>4. CASE ~\E a \in Attempts : RecLookup(r, a)
      <3>1. \E st \in {"idle", "crashed", "age", "unknown", "processing"}, b \in SUBSET Attempts :
               rec' = [rec EXCEPT ![r] = Busy(st, b)]
        BY <1>5, <2>4 DEF RecStart, RecListUnknown, RecListProcessing, RecEnd, RecRaises,
                          RecCrash, IdleRec, Busy
      <3>2. \A q \in Reconcilers : rec'[q] = rec[q] \/ rec'[q].cur = NoOne
        BY <3>1 DEF Busy, TypeInv, RecTypeOK
      <3>3. LookupInv'
        BY <2>1, <3>2, LookupKept
      <3>. QED BY <2>2, <3>3
    <2>. QED BY <2>3, <2>4
  <1>. QED BY <1>3, <1>4, <1>5

LEMMA TypeNext ==
    ASSUME TypeInv, [Next]_vars
    PROVE  TypeInv'
  <1>1. CASE UNCHANGED vars
    BY <1>1 DEF vars, money, TypeInv, BooksTypeOK, RestTypeOK, SubTypeOK, RecTypeOK, ThreadsHaveWork
  <1>. QED BY <1>1, TypeRequest, TypeSubmit, TypeProvider, TypeWebhook, TypeReconcile DEF Next

LEMMA InvNext ==
    ASSUME IInv, [Next]_vars
    PROVE  IInv'
  <1>1. TypeInv'
    BY TypeNext DEF IInv
  <1>2. CASE UNCHANGED vars
    <2>1. UNCHANGED <<wr, approvals, money, status, ref, sub, rec, provider>>
      BY <1>2 DEF vars, money
    <2>. QED BY <1>1, <2>1
         DEF IInv, money, BooksInv, AttemptsAndRows, RefundedExactlyWhenReturned, Returned,
             FeeBookedExactlyWhenPaid, ThreadsInv, ProviderInv, ThreadKnows, Accepted,
             TerminalAgreesWithProvider, ApprovalsInv, DualControl, ApprovedBothWays, LookupInv
  <1>. QED BY <1>1, <1>2, InvRequest, InvSubmit, InvProvider, InvWebhook, InvReconcile DEF Next

(* The inductive invariant: what the rows, the threads between their two    *)
(* transactions, the lookups and the provider know of each other holds in   *)
(* every reachable state of the pipeline.                                   *)
THEOREM Invariant == Spec => []IInv
  <1>1. IInv /\ [Next]_vars => IInv'
    BY InvNext
  <1>. QED BY <1>1, InvInit, PTL DEF Spec

(* Every reachable state is well typed, whatever the constants: rows keep   *)
(* to the statuses of models.py, no wallet is ever overdrawn, and a thread  *)
(* past TXN1 of submit_withdrawal_to_provider() owns an attempt.            *)
THEOREM TypeCorrect == Spec => []TypeOK
  <1>1. Init => TypeInv
    BY TypeInit
  <1>2. TypeInv /\ [Next]_vars => TypeInv'
    BY TypeNext
  <1>3. TypeInv => TypeOK
    BY DEF TypeInv, TypeOK, BooksTypeOK, RestTypeOK, SubTypeOK, RecTypeOK
  <1>. QED BY <1>1, <1>2, <1>3, PTL DEF Spec

(* The client's money, the broker's fee and the provider's order agree in   *)
(* every reachable state, whatever the number of withdrawals, submitting    *)
(* threads, administrators and reconciliation runs, and wherever the        *)
(* processes crash: a refund is made once and only for what was returned.   *)
THEOREM RefundedOnce == Spec => []RefundedExactlyWhenReturned
  <1>1. IInv => RefundedExactlyWhenReturned
    BY DEF IInv, BooksInv
  <1>. QED BY <1>1, Invariant, PTL

(* The fee is booked exactly for the withdrawals paid.                      *)
THEOREM FeeBookedWhenPaid == Spec => []FeeBookedExactlyWhenPaid
  <1>1. IInv => FeeBookedExactlyWhenPaid
    BY DEF IInv, BooksInv
  <1>. QED BY <1>1, Invariant, PTL

LEMMA RefundedMeansSettled ==
    ASSUME IInv, NEW a \in Attempts, refunds[a[1]] > 0
    PROVE  status[a] \in {"none", "failed"}
  <1>1. a[1] \in Withdrawals
    BY AttemptPair
  <1>2. wr[a[1]] \in {"rejected", "failed"}
    BY <1>1 DEF IInv, BooksInv, RefundedExactlyWhenReturned, Returned
  <1>. QED BY <1>2, Derived DEF IInv, BooksInv, AttemptsAndRows, TypeInv, BooksTypeOK, AttemptStatus

(* No client is given back money that the provider has or can still take:   *)
(* _apply_confirmed_failure_with_refund() is reached with nothing posted,   *)
(* or with the provider's own word that the payout failed.                  *)
THEOREM NoRefundWhilePayable == Spec => []NeverRefundedWhilePayable
  <1>1. ASSUME IInv
        PROVE  NeverRefundedWhilePayable
    <2>1. ASSUME NEW a \in Attempts, refunds[a[1]] > 0
          PROVE  provider[a] \in {"none", "failed"}
      BY <1>1, <2>1, RefundedMeansSettled DEF IInv, ProviderInv, TerminalAgreesWithProvider
    <2>. QED BY <2>1 DEF NeverRefundedWhilePayable
  <1>. QED BY <1>1, Invariant, PTL

(* A thread between TXN1 and the POST never belongs to a refunded row.      *)
THEOREM NoPostAfterRefund == Spec => []NeverPostedAfterRefund
  <1>1. ASSUME IInv
        PROVE  NeverPostedAfterRefund
    <2>1. ASSUME NEW s \in Submitters, sub[s].pc = "auth"
          PROVE  refunds[sub[s].wd] = 0
      <3>1. sub[s].att \in Attempts /\ sub[s].att[1] = sub[s].wd /\ sub[s].wd \in Withdrawals
        BY <1>1, <2>1 DEF IInv, TypeInv, SubTypeOK, ThreadsHaveWork, Owning
      <3>2. PICK a \in Attempts : a = sub[s].att
        BY <3>1
      <3>3. status[a] \notin {"none", "failed"}
        BY <1>1, <2>1, <3>2 DEF IInv, ThreadsInv, ProviderInv, ThreadKnows, Owning
      <3>4. ~(refunds[a[1]] > 0)
        BY <1>1, <3>3, RefundedMeansSettled
      <3>. QED BY <1>1, <3>1, <3>2, <3>4 DEF IInv, TypeInv, BooksTypeOK
    <2>. QED BY <2>1 DEF NeverPostedAfterRefund
  <1>. QED BY <1>1, Invariant, PTL

(* The provider never gets two orders for one withdrawal.                   *)
THEOREM OneOrder == Spec => []OneOrderPerWithdrawal
  <1>1. IInv => OneOrderPerWithdrawal
    BY DEF IInv, BooksInv, AttemptsAndRows, ProviderInv, OneOrderPerWithdrawal
  <1>. QED BY <1>1, Invariant, PTL

(* COMPLETED rows were paid, FAILED rows were not.                          *)
THEOREM BooksAgreeWithProvider == Spec => []TerminalAgreesWithProvider
  <1>1. IInv => TerminalAgreesWithProvider
    BY DEF IInv, ProviderInv
  <1>. QED BY <1>1, Invariant, PTL

(* The row the client sees is derived from its attempt.                     *)
THEOREM RowMirrorsAttempt == Spec => []WithdrawalMirrorsAttempt
  <1>1. ASSUME IInv, NEW w \in Withdrawals
        PROVE  LET tried == {n \in 1..MaxAttempts : status[<<w, n>>] # "none"} IN
               IF tried = {} THEN wr[w] \in {"none", "pending", "rejected"}
               ELSE \A n \in tried : wr[w] = derive_withdrawal_status[status[<<w, n>>]]
    <2>. DEFINE tried == {n \in 1..MaxAttempts : status[<<w, n>>] # "none"}
    <2>1. \A n \in 1..MaxAttempts : <<w, n>> \in Attempts /\ <<w, n>>[1] = w
      BY DEF Attempts
    <2>2. CASE tried = {}
      <3>1. ASSUME NEW a \in Attempts, a[1] = w
            PROVE  status[a] = "none"
        BY <2>2, <3>1, AttemptPair
      <3>. QED BY <1>1, <2>2, <3>1 DEF IInv, BooksInv, AttemptsAndRows
    <2>3. ASSUME NEW n \in tried
          PROVE  wr[w] = derive_withdrawal_status[status[<<w, n>>]]
      BY <1>1, <2>1 DEF IInv, BooksInv, AttemptsAndRows
    <2>. QED BY <2>2, <2>3
  <1>2. IInv => WithdrawalMirrorsAttempt
    BY <1>1 DEF WithdrawalMirrorsAttempt
  <1>. QED BY <1>2, Invariant, PTL

(* Money back at most once, only when the provider can no longer pay, and   *)
(* no order after it (_apply_confirmed_failure_with_refund).                *)
THEOREM RefundsSafe == Spec => []RefundsAreSafe
  BY RefundedOnce, NoRefundWhilePayable, NoPostAfterRefund, PTL DEF RefundsAreSafe

(* Row, attempt, fee revenue and provider tell one story, of one order.     *)
THEOREM BooksFollow == Spec => []BooksFollowTheProvider
  BY RowMirrorsAttempt, OneOrder, BooksAgreeWithProvider, FeeBookedWhenPaid, PTL
     DEF BooksFollowTheProvider

(* Above $1,000 two different administrators have approved what is sent.    *)
THEOREM TwoAdministrators == Spec => []DualControl
  <1>1. IInv => DualControl
    BY DEF IInv, ApprovalsInv
  <1>. QED BY <1>1, Invariant, PTL

(* The provider_reference of an UNKNOWN attempt is never set, so the lookup *)
(* of reconcile_unknown_payout_attempts() can never answer for one.         *)
THEOREM UnknownUnreferenced == Spec => []UnknownHasNoReference
  <1>1. IInv => UnknownHasNoReference
    BY DEF IInv, ProviderInv, UnknownHasNoReference
  <1>. QED BY <1>1, Invariant, PTL

-----------------------------------------------------------------------------
(* Payout implements WithdrawalPromise.                                     *)

LEMMA TransferredBy ==
    \A w : w \in Transferred <=> \E a \in Attempts : a[1] = w /\ provider[a] = "finished"
  <1>1. ASSUME NEW w, w \in Transferred
        PROVE  \E a \in Attempts : a[1] = w /\ provider[a] = "finished"
    <2>1. PICK n \in 1..MaxAttempts : provider[<<w, n>>] = "finished"
      BY <1>1 DEF Transferred
    <2>2. <<w, n>> \in Attempts /\ <<w, n>>[1] = w
      BY <1>1 DEF Transferred, Attempts
    <2>. QED BY <2>1, <2>2
  <1>2. ASSUME NEW w, NEW a \in Attempts, a[1] = w, provider[a] = "finished"
        PROVE  w \in Transferred
    BY <1>2, AttemptPair DEF Transferred
  <1>. QED BY <1>1, <1>2

(* A withdrawal whose attempt has settled otherwise was not transferred.    *)
LEMMA TransferredByItsAttempt ==
    ASSUME IInv, NEW a \in Attempts, status[a] # "none"
    PROVE  a[1] \in Transferred <=> provider[a] = "finished"
  BY TransferredBy DEF IInv, BooksInv, AttemptsAndRows, ProviderInv

LEMMA TransferredUnlessProvider ==
    ASSUME UNCHANGED provider
    PROVE  UNCHANGED Transferred
  BY DEF Transferred

LEMMA FateUnlessRow ==
    ASSUME \A w \in Withdrawals : wr'[w] = wr[w] \/ (Held(w) /\ Held(w)')
    PROVE  \A w \in Withdrawals : Fate(w)' = Fate(w)
  BY DEF Fate, Held, Returned

LEMMA SettleImplements ==
    ASSUME IInv, IInv', NEW a \in Attempts, NEW new, Settle(a, new), UNCHANGED provider
    PROVE  [Promise!Next]_(Promise!vars)
  <1>. DEFINE w == a[1]
  <1>1. TypeInv /\ w \in Withdrawals
    BY AttemptPair DEF IInv
  <1>2. /\ status'[a] = new /\ status[a] # "none"
        /\ new \in {"processing", "unknown", "completed", "failed"}
    BY <1>1, SettleStatus
  <1>3. wr[w] = "processing"
    BY <1>1, SettleStatus, Derived DEF IInv, BooksInv, AttemptsAndRows
  <1>4. /\ wr'[w] = derive_withdrawal_status[new]
        /\ \A v \in Withdrawals \ {w} : wr'[v] = wr[v]
    BY <1>1 DEF Settle, TransitionAndSync, TypeInv, BooksTypeOK
  <1>5. UNCHANGED Transferred /\ (w \in Transferred <=> provider[a] = "finished")
    BY <1>2, TransferredUnlessProvider, TransferredByItsAttempt
  <1>6. /\ status'[a] = "completed" => provider[a] = "finished"
        /\ status'[a] = "failed" => provider[a] \in {"none", "failed"}
    BY DEF IInv, ProviderInv, TerminalAgreesWithProvider
  <1>7. \A v \in Withdrawals \ {w} : Fate(v)' = Fate(v)
    BY <1>4 DEF Fate, Held, Returned
  <1>8. Fate(w) = "held"
    BY <1>3 DEF Fate, Held
  <1>9. CASE new \in {"processing", "unknown"}
    <2>1. wr'[w] = wr[w]
      BY <1>3, <1>4, <1>9, Derived
    <2>2. UNCHANGED wallet
      BY <1>9 DEF Settle
    <2>. QED BY <1>4, <1>5, <2>1, <2>2, FateUnlessRow DEF Promise!vars
  <1>10. CASE new = "completed"
    <2>1. Fate(w)' = "paid"
      BY <1>4, <1>10, Derived DEF Fate, Held, Returned
    <2>2. UNCHANGED wallet
      BY <1>10 DEF Settle
    <2>3. [v \in Withdrawals |-> Fate(v)]' = [[v \in Withdrawals |-> Fate(v)] EXCEPT ![w] = "paid"]
      BY <1>1, <1>7, <2>1
    <2>4. Promise!Pay(w)
      BY <1>1, <1>2, <1>5, <1>6, <1>8, <1>10, <2>2, <2>3 DEF Promise!Pay
    <2>. QED BY <1>1, <2>4 DEF Promise!Next
  <1>11. CASE new = "failed"
    <2>1. Fate(w)' = "returned"
      BY <1>4, <1>11, Derived DEF Fate, Held, Returned
    <2>2. wallet' = [wallet EXCEPT ![Owner[w]] = @ + AmountUsd[w]]
      BY <1>11 DEF Settle, Refund, credit_wallet
    <2>3. [v \in Withdrawals |-> Fate(v)]' = [[v \in Withdrawals |-> Fate(v)] EXCEPT ![w] = "returned"]
      BY <1>1, <1>7, <2>1
    <2>4. Promise!Return(w)
      BY <1>1, <1>2, <1>5, <1>6, <1>8, <1>11, <2>2, <2>3 DEF Promise!Return
    <2>. QED BY <1>1, <2>4 DEF Promise!Next
  <1>. QED BY <1>2, <1>9, <1>10, <1>11

(* A step that changes neither the wallets nor what the provider finished,  *)
(* and moves a row at most from PENDING to PROCESSING.                      *)
LEMMA StutterImplements ==
    ASSUME UNCHANGED wallet, UNCHANGED Transferred,
           \A w \in Withdrawals : wr'[w] = wr[w] \/ (Held(w) /\ Held(w)')
    PROVE  [Promise!Next]_(Promise!vars)
  BY FateUnlessRow DEF Promise!vars

LEMMA RequestImplements ==
    ASSUME IInv, IInv', Request
    PROVE  [Promise!Next]_(Promise!vars)
  <1>1. ASSUME NEW w \in Withdrawals, CreateWithdrawal(w)
        PROVE  Promise!Hold(w)
    <2>1. /\ wr[w] = "none" /\ wr' = [wr EXCEPT ![w] = "pending"]
          /\ wallet[Owner[w]] >= AmountUsd[w]
          /\ wallet' = [wallet EXCEPT ![Owner[w]] = @ - AmountUsd[w]]
          /\ UNCHANGED Transferred
      BY <1>1, TransferredUnlessProvider DEF CreateWithdrawal
    <2>2. [v \in Withdrawals |-> Fate(v)]' = [[v \in Withdrawals |-> Fate(v)] EXCEPT ![w] = "held"]
      BY <2>1 DEF Fate, Held, Returned, IInv, TypeInv, BooksTypeOK
    <2>3. Fate(w) = "none"
      BY <2>1 DEF Fate, Held, Returned
    <2>. QED BY <2>1, <2>2, <2>3 DEF Promise!Hold
  <1>2. ASSUME NEW w \in Withdrawals, RejectWithdrawal(w)
        PROVE  Promise!Return(w)
    <2>1. /\ wr[w] = "pending" /\ wr' = [wr EXCEPT ![w] = "rejected"]
          /\ wallet' = [wallet EXCEPT ![Owner[w]] = @ + AmountUsd[w]]
          /\ UNCHANGED Transferred
      BY <1>2, TransferredUnlessProvider DEF RejectWithdrawal, Refund, credit_wallet
    <2>2. [v \in Withdrawals |-> Fate(v)]' = [[v \in Withdrawals |-> Fate(v)] EXCEPT ![w] = "returned"]
      BY <2>1 DEF Fate, Held, Returned, IInv, TypeInv, BooksTypeOK
    <2>3. Fate(w) = "held"
      BY <2>1 DEF Fate, Held
    <2>4. \A a \in Attempts : a[1] = w => status[a] = "none"
      BY <2>1, Derived DEF IInv, BooksInv, AttemptsAndRows, TypeInv, BooksTypeOK, AttemptStatus
    <2>5. w \notin Transferred
      BY <2>4, TransferredBy DEF IInv, ProviderInv
    <2>. QED BY <2>1, <2>2, <2>3, <2>5 DEF Promise!Return
  <1>3. ASSUME UNCHANGED <<wr, money, provider>>
        PROVE  [Promise!Next]_(Promise!vars)
    BY <1>3, StutterImplements, TransferredUnlessProvider DEF money
  <1>4. \/ \E w \in Withdrawals : CreateWithdrawal(w) \/ RejectWithdrawal(w)
        \/ UNCHANGED <<wr, money, provider>>
    BY DEF Request, FirstApprove, AutoSubmit, ApproveAndSubmit
  <1>. QED BY <1>1, <1>2, <1>3, <1>4 DEF Promise!Next

LEMMA SubmitImplements ==
    ASSUME IInv, IInv', Submit
    PROVE  [Promise!Next]_(Promise!vars)
  <1>. PICK s \in Submitters :
          \/ SubmitPreview(s) \/ SubmitRefused(s) \/ SubmitClaim(s)
          \/ SubmitAuthFails(s) \/ SubmitPost(s) \/ SubmitResponse(s)
          \/ SubmitSuccess(s) \/ SubmitUnknown(s) \/ SubmitRejected(s)
          \/ SubmitRaises(s) \/ SubmitCrash(s)
    BY DEF Submit
  <1>1. CASE SubmitClaim(s)
    <2>1. \A w \in Withdrawals : wr'[w] = wr[w] \/ (Held(w) /\ Held(w)')
      BY <1>1, Derived DEF SubmitClaim, Claimable, TransitionAndSync, Held, IInv, TypeInv, BooksTypeOK
    <2>2. UNCHANGED wallet /\ UNCHANGED Transferred
      BY <1>1, TransferredUnlessProvider DEF SubmitClaim, money
    <2>. QED BY <2>1, <2>2, StutterImplements
  <1>2. CASE SubmitPost(s)
    <2>1. sub[s].att \in Attempts /\ provider[sub[s].att] = "none"
      BY <1>2 DEF SubmitPost, IInv, TypeInv, SubTypeOK, ThreadsHaveWork, Owning, ProviderInv, ThreadKnows
    <2>2. PICK a \in Attempts : a = sub[s].att
      BY <2>1
    <2>3. \A b \in Attempts : provider'[b] = "finished" <=> provider[b] = "finished"
      BY <1>2, <2>1, <2>2 DEF SubmitPost, IInv, TypeInv, RestTypeOK
    <2>4. UNCHANGED Transferred
      BY <2>3 DEF Transferred, Attempts
    <2>. QED BY <1>2, <2>4, StutterImplements DEF SubmitPost, money
  <1>3. CASE SubmitSuccess(s) \/ SubmitUnknown(s) \/ SubmitRejected(s)
    <2>1. sub[s].att \in Attempts
      BY <1>3 DEF SubmitSuccess, SubmitUnknown, SubmitRejected, IInv, TypeInv, SubTypeOK,
                  ThreadsHaveWork, Owning
    <2>2. PICK a \in Attempts : a = sub[s].att
      BY <2>1
    <2>3. UNCHANGED Books \/ \E new : Settle(a, new)
      BY <1>3, <2>2, ResultSettles, FailureSettles
         DEF SubmitSuccess, SubmitUnknown, SubmitRejected, ApplySubmissionSuccess
    <2>4. UNCHANGED provider
      BY <1>3 DEF SubmitSuccess, SubmitUnknown, SubmitRejected
    <2>. QED BY <2>3, <2>4, SettleImplements, StutterImplements, TransferredUnlessProvider
             DEF Books, money
  <1>4. CASE \/ SubmitPreview(s) \/ SubmitRefused(s) \/ SubmitAuthFails(s)
             \/ SubmitResponse(s) \/ SubmitRaises(s) \/ SubmitCrash(s)
    <2>1. UNCHANGED <<wr, money, provider>>
      BY <1>4 DEF SubmitPreview, SubmitRefused, SubmitAuthFails, SubmitResponse, SubmitRaises, SubmitCrash
    <2>. QED BY <2>1, StutterImplements, TransferredUnlessProvider DEF money
  <1>. QED BY <1>1, <1>2, <1>3, <1>4

LEMMA ProviderImplements ==
    ASSUME IInv, IInv', Provider
    PROVE  [Promise!Next]_(Promise!vars)
  <1>1. PICK a \in Attempts : ProviderAccepts(a) \/ ProviderSettles(a)
    BY DEF Provider
  <1>2. UNCHANGED <<wr, money, status>>
    BY <1>1 DEF ProviderAccepts, ProviderSettles
  <1>3. /\ provider[a] \in {"inflight", "held"}
        /\ \A b \in Attempts \ {a} : provider'[b] = provider[b]
    BY <1>1 DEF ProviderAccepts, ProviderSettles, IInv, TypeInv, RestTypeOK
  <1>4. a[1] \in Withdrawals /\ a[1] \notin Transferred
    BY <1>3, AttemptPair, TransferredByItsAttempt DEF IInv, ProviderInv
  <1>5. CASE provider'[a] # "finished"
    <2>1. \A b \in Attempts : provider'[b] = "finished" <=> provider[b] = "finished"
      BY <1>3, <1>5
    <2>2. UNCHANGED Transferred
      BY <2>1 DEF Transferred, Attempts
    <2>. QED BY <1>2, <2>2, StutterImplements DEF money
  <1>6. CASE provider'[a] = "finished"
    <2>1. Transferred' = Transferred \cup {a[1]}
      <3>1. ASSUME NEW w \in Withdrawals
            PROVE  w \in Transferred' <=> w \in Transferred \/ w = a[1]
        <4>1. \A n \in 1..MaxAttempts : <<w, n>> \in Attempts
          BY DEF Attempts
        <4>2. w = a[1] => a = <<w, a[2]>> /\ a[2] \in 1..MaxAttempts
          BY AttemptPair
        <4>3. w # a[1] => \A n \in 1..MaxAttempts : provider'[<<w, n>>] = provider[<<w, n>>]
          BY <1>3, <4>1
        <4>. QED BY <1>6, <4>2, <4>3 DEF Transferred
      <3>. QED BY <3>1, <1>4 DEF Transferred
    <2>2. status[a] \in {"submitted", "processing", "unknown"}
      BY <1>3 DEF IInv, ProviderInv, TerminalAgreesWithProvider, TypeInv, BooksTypeOK, AttemptStatus
    <2>3. Fate(a[1]) = "held"
      BY <2>2, Derived DEF Fate, Held, IInv, BooksInv, AttemptsAndRows
    <2>4. UNCHANGED <<wallet, [w \in Withdrawals |-> Fate(w)]>>
      BY <1>2 DEF money, Fate, Held, Returned
    <2>5. Promise!Transfer(a[1])
      BY <1>4, <2>1, <2>3, <2>4 DEF Promise!Transfer
    <2>. QED BY <1>4, <2>5 DEF Promise!Next
  <1>. QED BY <1>5, <1>6

LEMMA WebhookImplements ==
    ASSUME IInv, IInv', Webhook
    PROVE  [Promise!Next]_(Promise!vars)
  <1>1. PICK a \in Attempts : WebhookApplied(a)
    BY DEF Webhook
  <1>2. UNCHANGED Books \/ \E new : Settle(a, new)
    BY <1>1, ResultSettles, FailureSettles DEF WebhookApplied, ApplyAttemptWebhook
  <1>3. UNCHANGED provider
    BY <1>1 DEF WebhookApplied, ApplyAttemptWebhook
  <1>. QED BY <1>2, <1>3, SettleImplements, StutterImplements, TransferredUnlessProvider
           DEF Books, money

LEMMA ReconcileImplements ==
    ASSUME IInv, IInv', Reconcile
    PROVE  [Promise!Next]_(Promise!vars)
  <1>. PICK r \in Reconcilers :
          \/ RecStart(r) \/ RecAge(r) \/ RecListUnknown(r) \/ RecListProcessing(r)
          \/ RecEnd(r) \/ RecApply(r) \/ RecRaises(r) \/ RecCrash(r)
          \/ \E a \in Attempts : RecLookup(r, a)
    BY DEF Reconcile
  <1>1. UNCHANGED provider
    BY DEF RecStart, RecAge, RecListUnknown, RecListProcessing, RecEnd, RecApply, RecRaises,
           RecCrash, RecLookup
  <1>2. UNCHANGED Books \/ \E a \in Attempts : \E new : Settle(a, new)
    <2>1. CASE RecAge(r)
      BY <2>1, ResultSettles DEF RecAge, IInv, TypeInv, RecTypeOK
    <2>2. CASE RecApply(r)
      <3>1. rec[r].cur \in Attempts
        BY <2>2 DEF RecApply, IInv, TypeInv, RecTypeOK
      <3>2. PICK a \in Attempts : a = rec[r].cur
        BY <3>1
      <3>. QED BY <2>2, <3>2, ResultSettles, FailureSettles DEF RecApply, Books
    <2>3. CASE ~RecAge(r) /\ ~RecApply(r)
      BY <2>3 DEF RecStart, RecListUnknown, RecListProcessing, RecEnd, RecRaises, RecCrash,
                  RecLookup, Books
    <2>. QED BY <2>1, <2>2, <2>3
  <1>. QED BY <1>1, <1>2, SettleImplements, StutterImplements, TransferredUnlessProvider
           DEF Books, money

LEMMA NextImplements ==
    ASSUME IInv, IInv', [Next]_vars
    PROVE  [Promise!Next]_(Promise!vars)
  <1>1. CASE UNCHANGED vars
    BY <1>1, StutterImplements, TransferredUnlessProvider DEF vars, money
  <1>. QED BY <1>1, RequestImplements, SubmitImplements, ProviderImplements, WebhookImplements,
              ReconcileImplements DEF Next

(* The whole pipeline, with every interleaving, crash, lost or late notice  *)
(* and retry, implements the promise made to the client: each withdrawal    *)
(* is held, then paid or returned, and its money moves with its fate.       *)
THEOREM PromiseKept == Spec => KeepsPromise
  <1>1. Init => Promise!Init
    <2> SUFFICES ASSUME Init PROVE Promise!Init
      OBVIOUS
    <2>1. [w \in Withdrawals |-> Fate(w)] = [w \in Withdrawals |-> "none"]
      BY DEF Init, Fate, Held, Returned
    <2>2. Transferred = {}
      BY DEF Init, Transferred, Attempts
    <2>. QED BY <2>1, <2>2 DEF Init, Promise!Init
  <1>2. IInv /\ IInv' /\ [Next]_vars => [Promise!Next]_(Promise!vars)
    BY NextImplements
  <1>. QED BY <1>1, <1>2, Invariant, PTL DEF Spec, KeepsPromise, Promise!Spec

-----------------------------------------------------------------------------
(* The wallets.  Since every step is one of the promise's, what each wallet *)
(* holds follows from the fates of its withdrawals.                         *)

LEMMA OutstandingFates ==
    ASSUME NEW u \in Users
    PROVE  /\ Outstanding(u) = {w \in Withdrawals : Owner[w] = u /\ Fate(w) \in {"held", "paid"}}
           /\ Outstanding(u)' = {w \in Withdrawals : Owner[w] = u /\ Fate(w)' \in {"held", "paid"}}
  <1>1. Outstanding(u) = {w \in Withdrawals : Owner[w] = u /\ Fate(w) \in {"held", "paid"}}
    BY DEF Outstanding, Fate, Held, Returned
  <1>2. Outstanding(u)' = {w \in Withdrawals : Owner[w] = u /\ Fate(w)' \in {"held", "paid"}}
    BY DEF Outstanding, Fate, Held, Returned
  <1>. QED BY <1>1, <1>2

LEMMA AmountsAddUp ==
    ASSUME NEW T \in SUBSET Withdrawals
    PROVE  /\ IsFiniteSet(T)
           /\ SumFunctionOnSet(AmountUsd, T) \in Int
           /\ \A w \in T : SumFunctionOnSet(AmountUsd, T)
                             = AmountUsd[w] + SumFunctionOnSet(AmountUsd, T \ {w})
  <1>1. IsFiniteSet(T)
    BY PayoutConstants, FS_Subset DEF PayoutConstants
  <1>2. \A w \in T : AmountUsd[w] \in Int
    BY PayoutConstants DEF PayoutConstants
  <1>3. SumFunctionOnSet(AmountUsd, T) \in Int
    BY <1>1, <1>2, SumType
  <1>. QED BY <1>1, <1>2, <1>3, SumRemove

(* The fate of one withdrawal changes, and its owner's wallet with it.      *)
LEMMA BalancesMove ==
    ASSUME IInv, WalletBalances, NEW w \in Withdrawals, NEW f, NEW d \in Int,
           \A v \in Withdrawals \ {w} : Fate(v)' = Fate(v),
           Fate(w)' = f, f \in {"held", "paid"} <=> Fate(w) \notin {"held", "paid"},
           d = IF f \in {"held", "paid"} THEN - AmountUsd[w] ELSE AmountUsd[w],
           wallet' = [wallet EXCEPT ![Owner[w]] = @ + d]
    PROVE  WalletBalances'
  <1>. SUFFICES ASSUME NEW u \in Users
                PROVE  wallet'[u] + SumFunctionOnSet(AmountUsd, Outstanding(u)') = InitialBalance[u]
    BY DEF WalletBalances
  <1>1. wallet[u] + SumFunctionOnSet(AmountUsd, Outstanding(u)) = InitialBalance[u]
    BY DEF WalletBalances
  <1>2. /\ Outstanding(u) = {v \in Withdrawals : Owner[v] = u /\ Fate(v) \in {"held", "paid"}}
        /\ Outstanding(u)' = {v \in Withdrawals : Owner[v] = u /\ Fate(v)' \in {"held", "paid"}}
    BY OutstandingFates
  <1>3. wallet \in [Users -> Nat] /\ Owner[w] \in Users /\ AmountUsd[w] \in Nat
    BY PayoutConstants DEF PayoutConstants, IInv, TypeInv, BooksTypeOK
  <1>4. CASE u # Owner[w]
    <2>1. Outstanding(u)' = Outstanding(u)
      BY <1>2, <1>4
    <2>2. wallet'[u] = wallet[u]
      BY <1>3, <1>4
    <2>. QED BY <1>1, <2>1, <2>2
  <1>5. CASE u = Owner[w] /\ f \in {"held", "paid"}
    <2>1. w \in Outstanding(u)' /\ Outstanding(u)' \ {w} = Outstanding(u)
      BY <1>2, <1>5
    <2>2. Outstanding(u)' \in SUBSET Withdrawals /\ Outstanding(u) \in SUBSET Withdrawals
      BY <1>2
    <2>3. SumFunctionOnSet(AmountUsd, Outstanding(u)')
            = AmountUsd[w] + SumFunctionOnSet(AmountUsd, Outstanding(u))
      BY <2>1, <2>2, AmountsAddUp
    <2>4. wallet'[u] = wallet[u] - AmountUsd[w]
      BY <1>3, <1>5
    <2>5. SumFunctionOnSet(AmountUsd, Outstanding(u)) \in Int
      BY <2>2, AmountsAddUp
    <2>. QED BY <1>1, <1>3, <2>3, <2>4, <2>5
  <1>6. CASE u = Owner[w] /\ f \notin {"held", "paid"}
    <2>1. w \in Outstanding(u) /\ Outstanding(u) \ {w} = Outstanding(u)'
      BY <1>2, <1>6
    <2>2. Outstanding(u)' \in SUBSET Withdrawals /\ Outstanding(u) \in SUBSET Withdrawals
      BY <1>2
    <2>3. SumFunctionOnSet(AmountUsd, Outstanding(u))
            = AmountUsd[w] + SumFunctionOnSet(AmountUsd, Outstanding(u)')
      BY <2>1, <2>2, AmountsAddUp
    <2>4. wallet'[u] = wallet[u] + AmountUsd[w]
      BY <1>3, <1>6
    <2>5. SumFunctionOnSet(AmountUsd, Outstanding(u)') \in Int
      BY <2>2, AmountsAddUp
    <2>. QED BY <1>1, <1>3, <2>3, <2>4, <2>5
  <1>. QED BY <1>4, <1>5, <1>6

LEMMA BalancesNext ==
    ASSUME IInv, IInv', [Next]_vars, WalletBalances
    PROVE  WalletBalances'
  <1>. DEFINE fate == [w \in Withdrawals |-> Fate(w)]
  <1>1. [Promise!Next]_(Promise!vars)
    BY NextImplements
  <1>2. ASSUME UNCHANGED wallet,
               \A w \in Withdrawals : Fate(w)' \in {"held", "paid"} <=> Fate(w) \in {"held", "paid"}
        PROVE  WalletBalances'
    <2>1. ASSUME NEW u \in Users PROVE Outstanding(u)' = Outstanding(u)
      <3>1. /\ Outstanding(u) = {v \in Withdrawals : Owner[v] = u /\ Fate(v) \in {"held", "paid"}}
            /\ Outstanding(u)' = {v \in Withdrawals : Owner[v] = u /\ Fate(v)' \in {"held", "paid"}}
        BY OutstandingFates
      <3>. QED BY <1>2, <3>1
    <2>. QED BY <1>2, <2>1 DEF WalletBalances
  <1>3. CASE UNCHANGED Promise!vars
    <2>1. fate' = fate /\ UNCHANGED wallet
      BY <1>3 DEF Promise!vars
    <2>2. \A w \in Withdrawals : Fate(w)' = Fate(w)
      BY <2>1
    <2>. QED BY <1>2, <2>1, <2>2
  <1>4. ASSUME NEW w \in Withdrawals, Promise!Hold(w)
        PROVE  WalletBalances'
    <2>1. /\ fate[w] = "none" /\ fate' = [fate EXCEPT ![w] = "held"]
          /\ wallet' = [wallet EXCEPT ![Owner[w]] = @ - AmountUsd[w]]
      BY <1>4 DEF Promise!Hold
    <2>2. Fate(w) = "none" /\ Fate(w)' = "held" /\ \A v \in Withdrawals \ {w} : Fate(v)' = Fate(v)
      BY <2>1
    <2>3. wallet[Owner[w]] \in Nat /\ AmountUsd[w] \in Nat
      BY PayoutConstants DEF PayoutConstants, IInv, TypeInv, BooksTypeOK
    <2>4. /\ - AmountUsd[w] \in Int
          /\ wallet[Owner[w]] - AmountUsd[w] = wallet[Owner[w]] + (- AmountUsd[w])
      BY <2>3
    <2>5. wallet' = [wallet EXCEPT ![Owner[w]] = @ + (- AmountUsd[w])]
      BY <2>1, <2>4, Zenon
    <2>. QED BY <2>2, <2>4, <2>5, BalancesMove
  <1>5. ASSUME NEW w \in Withdrawals, Promise!Return(w)
        PROVE  WalletBalances'
    <2>1. /\ fate[w] = "held" /\ fate' = [fate EXCEPT ![w] = "returned"]
          /\ wallet' = [wallet EXCEPT ![Owner[w]] = @ + AmountUsd[w]]
      BY <1>5 DEF Promise!Return
    <2>2. Fate(w) = "held" /\ Fate(w)' = "returned" /\ \A v \in Withdrawals \ {w} : Fate(v)' = Fate(v)
      BY <2>1
    <2>3. AmountUsd[w] \in Int
      BY PayoutConstants DEF PayoutConstants
    <2>. QED BY <2>1, <2>2, <2>3, BalancesMove
  <1>6. ASSUME NEW w \in Withdrawals, Promise!Pay(w) \/ Promise!Transfer(w)
        PROVE  WalletBalances'
    <2>1. /\ UNCHANGED wallet
          /\ fate' = fate \/ (fate[w] = "held" /\ fate' = [fate EXCEPT ![w] = "paid"])
      BY <1>6 DEF Promise!Pay, Promise!Transfer
    <2>2. \A v \in Withdrawals : Fate(v)' \in {"held", "paid"} <=> Fate(v) \in {"held", "paid"}
      BY <2>1
    <2>. QED BY <1>2, <2>1, <2>2
  <1>. QED BY <1>1, <1>3, <1>4, <1>5, <1>6 DEF Promise!Next

(* Each wallet holds what it started with, less what is held or was paid:   *)
(* no approval, rejection, webhook, retry or crash loses or repeats a debit *)
(* or a refund.                                                             *)
THEOREM WalletsBalance == Spec => []WalletBalances
  <1>1. Init => WalletBalances
    <2> SUFFICES ASSUME Init, NEW u \in Users
                 PROVE  wallet[u] + SumFunctionOnSet(AmountUsd, Outstanding(u)) = InitialBalance[u]
      BY DEF WalletBalances
    <2>1. Outstanding(u) = {}
      BY DEF Init, Outstanding, Held
    <2>2. SumFunctionOnSet(AmountUsd, Outstanding(u)) = 0
      BY <2>1, SumEmpty, Zenon
    <2>3. wallet[u] = InitialBalance[u] /\ InitialBalance[u] \in Nat
      BY PayoutConstants DEF Init, PayoutConstants
    <2>. QED BY <2>2, <2>3
  <1>2. IInv /\ IInv' /\ [Next]_vars /\ WalletBalances => WalletBalances'
    BY BalancesNext
  <1>. QED BY <1>1, <1>2, Invariant, PTL DEF Spec

-----------------------------------------------------------------------------
(* The inbox.                                                               *)

(* What the inbox relies on: a step of the pipeline never takes back what   *)
(* the provider has said, a reference, or the end of an attempt.            *)
Past == {"processing", "completed", "failed"}

KeepsEvidence(a) ==
    /\ ref[a] => ref'[a]
    /\ Accepted(a) => Accepted(a)'
    /\ provider[a] \in {"finished", "failed"} => provider'[a] = provider[a]
    /\ status[a] \in TERMINAL_STATUSES => status'[a] = status[a]
    /\ status[a] \in Past => status'[a] \in Past

LEMMA SettleKeepsEvidence ==
    ASSUME TypeInv, NEW a \in Attempts, NEW new, Settle(a, new), UNCHANGED <<ref, provider>>
    PROVE  \A b \in Attempts : KeepsEvidence(b)
  <1>1. \A b \in Attempts :
           /\ status[b] \in TERMINAL_STATUSES => status'[b] = status[b]
           /\ status[b] \in Past => status'[b] \in Past
    BY SettleStatus DEF TERMINAL_STATUSES, Past
  <1>. QED BY <1>1 DEF KeepsEvidence, Accepted

LEMMA StutterKeepsEvidence ==
    ASSUME UNCHANGED <<ref, provider, status>>
    PROVE  \A b \in Attempts : KeepsEvidence(b)
  BY DEF KeepsEvidence, Accepted

LEMMA SubmitKeepsEvidence ==
    ASSUME IInv, NEW s \in Submitters,
           \/ SubmitPreview(s) \/ SubmitRefused(s) \/ SubmitClaim(s)
           \/ SubmitAuthFails(s) \/ SubmitPost(s) \/ SubmitResponse(s)
           \/ SubmitSuccess(s) \/ SubmitUnknown(s) \/ SubmitRejected(s)
           \/ SubmitRaises(s) \/ SubmitCrash(s)
    PROVE  \A b \in Attempts : KeepsEvidence(b)
  <1>. USE DEF IInv
  <1>1. CASE SubmitPreview(s) \/ SubmitRefused(s) \/ SubmitAuthFails(s) \/ SubmitResponse(s)
             \/ SubmitRaises(s) \/ SubmitCrash(s)
    BY <1>1, StutterKeepsEvidence
       DEF SubmitPreview, SubmitRefused, SubmitAuthFails, SubmitResponse, SubmitRaises, SubmitCrash
  <1>2. CASE SubmitClaim(s)
    <2>1. PICK w \in Withdrawals : w = sub[s].wd
      BY <1>2 DEF SubmitClaim, TypeInv, SubTypeOK, ThreadsHaveWork
    <2>2. PICK n \in 1..MaxAttempts :
             IsNextAttemptNumber(w, n) /\ TransitionAndSync(<<w, n>>, "submitted")
      BY <1>2, <2>1 DEF SubmitClaim
    <2>3. status[<<w, n>>] = "none" /\ <<w, n>> \in Attempts
      BY <2>1, <2>2, PayoutConstants DEF IsNextAttemptNumber, Attempts
    <2>4. status' = [status EXCEPT ![<<w, n>>] = "submitted"] /\ UNCHANGED <<ref, provider>>
      BY <1>2, <2>2 DEF TransitionAndSync, SubmitClaim
    <2>. QED BY <2>3, <2>4 DEF KeepsEvidence, Accepted, TypeInv, BooksTypeOK, TERMINAL_STATUSES, Past
  <1>3. CASE SubmitPost(s)
    <2>1. PICK a \in Attempts : a = sub[s].att
      BY <1>3 DEF SubmitPost, TypeInv, SubTypeOK, ThreadsHaveWork, Owning
    <2>2. provider[a] = "none" /\ provider' = [provider EXCEPT ![a] = "inflight"]
          /\ UNCHANGED <<ref, status>>
      BY <1>3, <2>1 DEF SubmitPost, ProviderInv, ThreadKnows
    <2>. QED BY <2>2 DEF KeepsEvidence, Accepted, TypeInv, RestTypeOK
  <1>4. CASE SubmitUnknown(s) \/ SubmitRejected(s)
    <2>1. PICK a \in Attempts : a = sub[s].att
      BY <1>4 DEF SubmitUnknown, SubmitRejected, TypeInv, SubTypeOK, ThreadsHaveWork, Owning
    <2>2. UNCHANGED Books \/ \E new : Settle(a, new)
      BY <1>4, <2>1, ResultSettles, FailureSettles DEF SubmitUnknown, SubmitRejected
    <2>. QED BY <1>4, <2>2, SettleKeepsEvidence, StutterKeepsEvidence
             DEF Books, SubmitUnknown, SubmitRejected
  <1>5. CASE SubmitSuccess(s)
    <2>1. PICK a \in Attempts : a = sub[s].att
      BY <1>5 DEF SubmitSuccess, TypeInv, SubTypeOK, ThreadsHaveWork, Owning
    <2>2. ApplySubmissionSuccess(a, sub[s].pc = "acked") /\ UNCHANGED provider
      BY <1>5, <2>1 DEF SubmitSuccess
    <2>3. CASE status[a] \in TERMINAL_STATUSES
      <3>1. UNCHANGED status
        <4>1. ~MayTransition(a, "processing", FALSE)
          BY <2>3 DEF MayTransition, TERMINAL_STATUSES, ALLOWED_TRANSITIONS
        <4>. QED BY <2>2, <4>1 DEF ApplySubmissionSuccess, ApplyResultWithoutRefund
      <3>2. UNCHANGED ref
        BY <2>2, <2>3 DEF ApplySubmissionSuccess, TypeInv, RestTypeOK
      <3>. QED BY <2>2, <3>1, <3>2, StutterKeepsEvidence
    <2>4. CASE status[a] \notin TERMINAL_STATUSES
      <3>1. Settle(a, "processing")
        BY <2>2, <2>4 DEF ApplySubmissionSuccess, ApplyResultWithoutRefund, Settle, MayTransition
      <3>2. ~ref[a]
        BY <3>1, <2>4, SettleStatus DEF ProviderInv, TERMINAL_STATUSES
      <3>3. \A b \in Attempts : ref[b] => ref'[b]
        BY <2>2, <3>2 DEF ApplySubmissionSuccess, TypeInv, RestTypeOK
      <3>4. \A b \in Attempts :
               /\ status[b] \in TERMINAL_STATUSES => status'[b] = status[b]
               /\ status[b] \in Past => status'[b] \in Past
        BY <3>1, SettleStatus DEF TERMINAL_STATUSES, Past
      <3>. QED BY <2>2, <3>3, <3>4 DEF KeepsEvidence, Accepted
    <2>. QED BY <2>3, <2>4
  <1>. QED BY <1>1, <1>2, <1>3, <1>4, <1>5

(* The pipeline only ever adds to what a notice can rely on.                *)
LEMMA NextKeepsEvidence ==
    ASSUME IInv, [Next]_vars
    PROVE  \A b \in Attempts : KeepsEvidence(b)
  <1>. USE DEF IInv
  <1>1. CASE Request
    BY <1>1, StutterKeepsEvidence
       DEF Request, CreateWithdrawal, RejectWithdrawal, FirstApprove, AutoSubmit, ApproveAndSubmit
  <1>2. CASE Submit
    BY <1>2, SubmitKeepsEvidence DEF Submit
  <1>3. CASE Provider
    <2>1. PICK a \in Attempts : ProviderAccepts(a) \/ ProviderSettles(a)
      BY <1>3 DEF Provider
    <2>2. /\ provider[a] \in {"inflight", "held"}
          /\ \E st \in {"held", "finished", "failed"} : provider' = [provider EXCEPT ![a] = st]
          /\ UNCHANGED <<ref, status>>
      BY <2>1 DEF ProviderAccepts, ProviderSettles
    <2>. QED BY <2>2 DEF KeepsEvidence, Accepted, TypeInv, RestTypeOK
  <1>4. CASE Webhook
    <2>1. PICK a \in Attempts : WebhookApplied(a)
      BY <1>4 DEF Webhook
    <2>2. UNCHANGED Books \/ \E new : Settle(a, new)
      BY <2>1, ResultSettles, FailureSettles DEF WebhookApplied, ApplyAttemptWebhook
    <2>. QED BY <2>1, <2>2, SettleKeepsEvidence, StutterKeepsEvidence
             DEF Books, WebhookApplied, ApplyAttemptWebhook
  <1>5. CASE Reconcile
    <2>. PICK r \in Reconcilers :
          \/ RecStart(r) \/ RecAge(r) \/ RecListUnknown(r) \/ RecListProcessing(r)
          \/ RecEnd(r) \/ RecApply(r) \/ RecRaises(r) \/ RecCrash(r)
          \/ \E a \in Attempts : RecLookup(r, a)
      BY <1>5 DEF Reconcile
    <2>1. UNCHANGED <<ref, provider>>
      BY DEF RecStart, RecAge, RecListUnknown, RecListProcessing, RecEnd, RecApply, RecRaises,
             RecCrash, RecLookup
    <2>2. UNCHANGED Books \/ \E a \in Attempts : \E new : Settle(a, new)
      <3>1. CASE RecAge(r)
        BY <3>1, ResultSettles DEF RecAge, TypeInv, RecTypeOK
      <3>2. CASE RecApply(r)
        <4>1. rec[r].cur \in Attempts
          BY <3>2 DEF RecApply, TypeInv, RecTypeOK
        <4>2. PICK a \in Attempts : a = rec[r].cur
          BY <4>1
        <4>. QED BY <3>2, <4>2, ResultSettles, FailureSettles DEF RecApply, Books
      <3>3. CASE ~RecAge(r) /\ ~RecApply(r)
        BY <3>3 DEF RecStart, RecListUnknown, RecListProcessing, RecEnd, RecRaises, RecCrash,
                    RecLookup, Books
      <3>. QED BY <3>1, <3>2, <3>3
    <2>. QED BY <2>1, <2>2, SettleKeepsEvidence, StutterKeepsEvidence DEF Books
  <1>6. CASE UNCHANGED vars
    BY <1>6, StutterKeepsEvidence DEF vars
  <1>. QED BY <1>1, <1>2, <1>3, <1>4, <1>5, <1>6 DEF Next

-----------------------------------------------------------------------------
(* The inductive invariant of the inbox.                                    *)

Known(e) == event[e].st # "none"

(* What applying the notice e leaves behind.                                *)
AppliedNotice(e) ==
    IF e[2] = "processing" THEN status[e[1]] \in Past ELSE status[e[1]] = e[2]

InboxTypeInv ==
    /\ event \in [Events -> [st : {"none", "pending", "resolved", "manual_review"},
                             retries : 0..MaxAutoRetries]]
    /\ arrival \in Seq(Events)
    /\ proc \in [Processes -> [pc : {"idle", "crashed", "txn0", "txn1", "txn2", "orphan", "review", "next"},
                               ev : Events \cup {NoOne},
                               todo : SUBSET Events]]

(* A process between two transactions holds a stored row.  It applies it    *)
(* only once it has been correlated, and marks it only once applied.        *)
ProcKnows(p) ==
    /\ proc[p].pc \in {"txn0", "txn1", "txn2", "orphan", "review"} => proc[p].ev \in Events
    /\ proc[p].ev \in Events => Known(proc[p].ev)
    /\ \A e \in proc[p].todo : Known(e)
    /\ proc[p].pc = "txn1" => ref[proc[p].ev[1]] /\ proc[p].ev[2] # "unrecognized"
    /\ proc[p].pc = "txn2" => AppliedNotice(proc[p].ev) /\ proc[p].ev[2] # "unrecognized"

RowKnows(e) ==
    /\ Known(e) => Truthful(e)
    /\ event[e].st = "resolved" => AppliedNotice(e) /\ e[2] # "unrecognized"

InboxInv ==
    /\ InboxTypeInv
    /\ \A e \in Events : RowKnows(e)
    /\ \A p \in Processes : ProcKnows(p)

LEMMA NoticePair ==
    ASSUME NEW e \in Events
    PROVE  /\ e[1] \in Attempts
           /\ e[2] \in {"processing", "completed", "failed", "unrecognized"}
  BY InboxConstants DEF Events

LEMMA InboxInvInit == InboxInit => InboxInv
  <1> SUFFICES ASSUME InboxInit PROVE InboxInv
    OBVIOUS
  <1>1. \A e \in Events : event[e] = [st |-> "none", retries |-> 0]
    BY DEF InboxInit
  <1>2. \A p \in Processes : proc[p] = [pc |-> "idle", ev |-> NoOne, todo |-> {}]
    BY DEF InboxInit, IdleProc
  <1>3. NoOne \notin Events
    BY InboxConstants DEF Events
  <1>4. InboxTypeInv
    BY InboxConstants DEF InboxInit, IdleProc, InboxTypeInv
  <1>5. \A e \in Events : RowKnows(e)
    BY <1>1 DEF RowKnows, Known
  <1>6. \A p \in Processes : ProcKnows(p)
    BY <1>2, <1>3 DEF ProcKnows
  <1>. QED BY <1>4, <1>5, <1>6 DEF InboxInv

(* Rows and processes that a step leaves as they are stay right.            *)
LEMMA NoticeKept ==
    ASSUME TypeInv, NEW e \in Events, KeepsEvidence(e[1])
    PROVE  /\ Truthful(e) => Truthful(e)'
           /\ e[2] # "unrecognized" /\ AppliedNotice(e) => AppliedNotice(e)'
           /\ ref[e[1]] => ref'[e[1]]
  <1>1. e[1] \in Attempts /\ e[2] \in {"processing", "completed", "failed", "unrecognized"}
    BY NoticePair
  <1>. QED BY <1>1 DEF KeepsEvidence, Truthful, Evidence, AppliedNotice, TERMINAL_STATUSES

LEMMA RowKept ==
    ASSUME TypeInv, NEW e \in Events, KeepsEvidence(e[1]), RowKnows(e),
           Known(e)' => Known(e),
           event'[e].st = "resolved" => event[e].st = "resolved"
    PROVE  RowKnows(e)'
  BY NoticeKept DEF RowKnows

LEMMA ProcKept ==
    ASSUME TypeInv, \A a \in Attempts : KeepsEvidence(a),
           NEW p \in Processes, ProcKnows(p), proc'[p] = proc[p],
           \A e \in Events : Known(e) => Known(e)',
           proc[p].todo \subseteq Events
    PROVE  ProcKnows(p)'
  <1>2. CASE proc[p].ev \in Events
    <2>1. PICK e \in Events : e = proc[p].ev
      BY <1>2
    <2>2. KeepsEvidence(e[1])
      BY NoticePair
    <2>. QED BY <2>1, <2>2, NoticeKept DEF ProcKnows, AppliedNotice, Known
  <1>3. CASE proc[p].ev \notin Events
    BY <1>3 DEF ProcKnows, Known
  <1>. QED BY <1>2, <1>3

(* A step of the pipeline that leaves the inbox alone.                      *)
LEMMA PipelineKeepsInbox ==
    ASSUME IInv, InboxInv, [Next]_vars, UNCHANGED inboxVars
    PROVE  InboxInv'
  <1>1. TypeInv /\ \A a \in Attempts : KeepsEvidence(a)
    BY NextKeepsEvidence DEF IInv
  <1>2. InboxTypeInv'
    BY DEF InboxInv, InboxTypeInv, inboxVars
  <1>3. \A e \in Events : RowKnows(e)'
    BY <1>1, RowKept, NoticePair DEF InboxInv, inboxVars, Known
  <1>4. \A p \in Processes : ProcKnows(p)'
    BY <1>1, ProcKept DEF InboxInv, InboxTypeInv, inboxVars, Known
  <1>. QED BY <1>2, <1>3, <1>4 DEF InboxInv

-----------------------------------------------------------------------------
(* The steps of the inbox itself.                                           *)

ProcStates ==
    [pc : {"idle", "crashed", "txn0", "txn1", "txn2", "orphan", "review", "next"},
     ev : Events \cup {NoOne},
     todo : SUBSET Events]

RowStates ==
    [st : {"none", "pending", "resolved", "manual_review"}, retries : 0..MaxAutoRetries]

(* One process moves; each row stays, or changes to something it may say.   *)
LEMMA InboxStep ==
    ASSUME InboxInv, TypeInv, \A a \in Attempts : KeepsEvidence(a),
           NEW p \in Processes, NEW x \in ProcStates, proc' = [proc EXCEPT ![p] = x],
           event' \in [Events -> RowStates], arrival' \in Seq(Events),
           \A e \in Events : Known(e) => Known(e)',
           \A e \in Events : RowKnows(e)',
           ProcKnows(p)'
    PROVE  InboxInv'
  <1>1. InboxTypeInv'
    BY DEF InboxInv, InboxTypeInv, ProcStates, RowStates
  <1>2. ASSUME NEW q \in Processes \ {p}
        PROVE  ProcKnows(q)'
    <2>1. proc'[q] = proc[q] /\ ProcKnows(q) /\ proc[q].todo \subseteq Events
      BY DEF InboxInv, InboxTypeInv
    <2>. QED BY <2>1, ProcKept
  <1>. QED BY <1>1, <1>2 DEF InboxInv

(* ... and when no row changes.                                             *)
LEMMA InboxMove ==
    ASSUME InboxInv, TypeInv, UNCHANGED <<vars, event, arrival>>,
           NEW p \in Processes, NEW x \in ProcStates, proc' = [proc EXCEPT ![p] = x],
           ProcKnows(p)'
    PROVE  InboxInv'
  <1>1. \A a \in Attempts : KeepsEvidence(a)
    BY StutterKeepsEvidence DEF vars
  <1>2. event' \in [Events -> RowStates] /\ arrival' \in Seq(Events)
    BY DEF InboxInv, InboxTypeInv, RowStates
  <1>3. \A e \in Events : Known(e) => Known(e)'
    BY DEF Known
  <1>4. \A e \in Events : RowKnows(e)'
    BY <1>1, RowKept, NoticePair DEF InboxInv, Known
  <1>. QED BY <1>1, <1>2, <1>3, <1>4, InboxStep

(* The process has nothing in hand any more.                                *)
LEMMA FreeProc ==
    ASSUME InboxInv, NEW p \in Processes, NEW x \in ProcStates, proc' = [proc EXCEPT ![p] = x],
           x.pc \in {"idle", "crashed", "next"}, x.ev = NoOne,
           \A e \in x.todo : Known(e)'
    PROVE  ProcKnows(p)'
  <1>1. proc'[p] = x
    BY DEF InboxInv, InboxTypeInv
  <1>2. NoOne \notin Events
    BY InboxConstants DEF Events
  <1>. QED BY <1>1, <1>2 DEF ProcKnows, Known

LEMMA InvDoneWith ==
    ASSUME InboxInv, NEW p \in Processes, DoneWith(p),
           \A e \in Events : Known(e) => Known(e)'
    PROVE  \E x \in ProcStates : proc' = [proc EXCEPT ![p] = x] /\ ProcKnows(p)'
  <1>1. CASE p \in Handlers
    <2>1. proc' = [proc EXCEPT ![p] = [pc |-> "idle", ev |-> NoOne, todo |-> {}]]
      BY <1>1 DEF DoneWith, IdleProc
    <2>2. [pc |-> "idle", ev |-> NoOne, todo |-> {}] \in ProcStates
      BY DEF ProcStates
    <2>. QED BY <2>1, <2>2, FreeProc
  <1>2. CASE p \notin Handlers
    <2>1. PICK todo \in SUBSET Events : todo = proc[p].todo
      BY DEF InboxInv, InboxTypeInv
    <2>2. proc' = [proc EXCEPT ![p] = [pc |-> "next", ev |-> NoOne, todo |-> todo]]
      BY <1>2, <2>1 DEF DoneWith
    <2>3. [pc |-> "next", ev |-> NoOne, todo |-> todo] \in ProcStates
      BY DEF ProcStates
    <2>4. \A e \in todo : Known(e)'
      BY <2>1 DEF InboxInv, ProcKnows
    <2>. QED BY <2>2, <2>3, <2>4, FreeProc
  <1>. QED BY <1>1, <1>2

LEMMA InvDeliver ==
    ASSUME InboxInv, TypeInv, NEW p \in Processes, NEW e \in Events, Deliver(p, e)
    PROVE  InboxInv'
  <1>. DEFINE x == [pc |-> "txn0", ev |-> e, todo |-> {}]
  <1>1. x \in ProcStates /\ proc' = [proc EXCEPT ![p] = x] /\ proc'[p] = x
    BY DEF Deliver, ProcStates, InboxInv, InboxTypeInv
  <1>2. \A a \in Attempts : KeepsEvidence(a)
    BY StutterKeepsEvidence DEF Deliver, vars
  <1>3. /\ event' \in [Events -> RowStates] /\ arrival' \in Seq(Events)
        /\ \A f \in Events : Known(f) => Known(f)'
        /\ Known(e)'
        /\ \A f \in Events \ {e} : event'[f] = event[f]
        /\ event'[e].st = "resolved" => event[e].st = "resolved"
    <2>1. CASE event[e].st = "none"
      <3>1. event' = [event EXCEPT ![e] = [st |-> "pending", retries |-> 0]] /\ arrival' = Append(arrival, e)
        BY <2>1 DEF Deliver, get_or_create_webhook_event
      <3>2. [st |-> "pending", retries |-> 0] \in RowStates
        BY InboxConstants DEF RowStates
      <3>3. event' \in [Events -> RowStates] /\ arrival' \in Seq(Events)
        BY <3>1, <3>2 DEF InboxInv, InboxTypeInv, RowStates
      <3>4. event'[e].st = "pending" /\ \A f \in Events \ {e} : event'[f] = event[f]
        BY <3>1 DEF InboxInv, InboxTypeInv
      <3>. QED BY <3>3, <3>4 DEF Known
    <2>2. CASE event[e].st # "none"
      BY <2>2 DEF Deliver, get_or_create_webhook_event, InboxInv, InboxTypeInv, RowStates, Known
    <2>. QED BY <2>1, <2>2
  <1>4. Truthful(e) /\ Truthful(e)'
    BY <1>2, NoticeKept, NoticePair DEF Deliver
  <1>5. ASSUME NEW f \in Events
        PROVE  RowKnows(f)'
    <2>1. KeepsEvidence(f[1]) /\ RowKnows(f)
      BY <1>2, NoticePair DEF InboxInv
    <2>2. CASE f = e
      BY <1>3, <1>4, <2>1, <2>2, NoticeKept DEF RowKnows
    <2>3. CASE f # e
      BY <1>3, <2>1, <2>3, RowKept DEF Known
    <2>. QED BY <2>2, <2>3
  <1>6. ProcKnows(p)'
    BY <1>1, <1>3 DEF ProcKnows, Known
  <1>. QED BY <1>1, <1>2, <1>3, <1>5, <1>6, InboxStep

LEMMA InvGoto ==
    ASSUME InboxInv, NEW p \in Processes,
           NEW pc \in {"txn1", "txn2", "orphan", "review"}, Goto(p, pc)
    PROVE  /\ \E x \in ProcStates : proc' = [proc EXCEPT ![p] = x]
           /\ proc'[p].pc = pc /\ proc'[p].ev = proc[p].ev /\ proc'[p].todo = proc[p].todo
  <1>. DEFINE x == [pc |-> pc, ev |-> proc[p].ev, todo |-> proc[p].todo]
  <1>1. x \in ProcStates
    BY DEF InboxInv, InboxTypeInv, ProcStates
  <1>2. proc' = [proc EXCEPT ![p] = x]
    BY DEF Goto, InboxInv, InboxTypeInv
  <1>3. proc'[p].pc = pc /\ proc'[p].ev = proc[p].ev /\ proc'[p].todo = proc[p].todo
    BY <1>2 DEF InboxInv, InboxTypeInv
  <1>4. \E y \in ProcStates : proc' = [proc EXCEPT ![p] = y]
    <2>. HIDE DEF x
    <2>. QED BY <1>1, <1>2
  <1>. QED BY <1>3, <1>4

LEMMA InvCorrelate ==
    ASSUME InboxInv, TypeInv, NEW p \in Processes, Correlate(p)
    PROVE  InboxInv'
  <1>1. UNCHANGED <<vars, event, arrival>>
    BY DEF Correlate
  <1>2. \A e \in Events : Known(e) => Known(e)'
    BY <1>1 DEF Known
  <1>3. PICK e \in Events : e = proc[p].ev
    BY DEF Correlate, InboxInv, ProcKnows
  <1>4. CASE DoneWith(p)
    BY <1>1, <1>2, <1>4, InvDoneWith, InboxMove
  <1>5. ASSUME NEW pc \in {"txn1", "orphan", "review"}, Goto(p, pc),
               pc = "txn1" => ref[e[1]] /\ e[2] # "unrecognized"
        PROVE  InboxInv'
    <2>1. /\ \E x \in ProcStates : proc' = [proc EXCEPT ![p] = x]
          /\ proc'[p].pc = pc /\ proc'[p].ev = e /\ proc'[p].todo = proc[p].todo
      BY <1>3, <1>5, InvGoto
    <2>2. ProcKnows(p) /\ ref' = ref
      BY <1>1 DEF InboxInv, vars
    <2>3. ProcKnows(p)'
      BY <1>1, <1>3, <1>5, <2>1, <2>2 DEF ProcKnows, Known
    <2>. QED BY <1>1, <2>1, <2>3, InboxMove
  <1>. QED BY <1>3, <1>4, <1>5 DEF Correlate

(* TXN1 in terms of the pipeline: it is the webhook step of Payout.         *)
LEMMA ApplyIsWebhook ==
    ASSUME InboxInv, NEW p \in Processes, Apply(p)
    PROVE  Webhook
  <1>1. PICK e \in Events : e = proc[p].ev
    BY DEF Apply, InboxInv, ProcKnows
  <1>2. /\ ref[e[1]] /\ e[2] # "unrecognized" /\ Truthful(e)
        /\ ApplyAttemptWebhook(e[1], e[2])
        /\ UNCHANGED <<sub, rec>>
    BY <1>1 DEF Apply, InboxInv, ProcKnows, RowKnows
  <1>3. e[1] \in Attempts /\ e[2] \in {"processing", "completed", "failed"}
    BY <1>2, NoticePair
  <1>4. Evidence(e[1], e[2])
    BY <1>2 DEF Truthful
  <1>. QED BY <1>2, <1>3, <1>4 DEF Webhook, WebhookApplied

(* What TXN1 says afterwards is what the notice said: the books never       *)
(* contradict the provider, so a terminal attempt is in the notice's own    *)
(* status already.                                                          *)
LEMMA AppliedAfter ==
    ASSUME IInv, NEW e \in Events, e[2] # "unrecognized", Truthful(e),
           ApplyAttemptWebhook(e[1], e[2])
    PROVE  AppliedNotice(e)'
  <1>. DEFINE a == e[1]
  <1>1. a \in Attempts /\ e[2] \in {"processing", "completed", "failed"}
    BY NoticePair
  <1>2. status[a] \in AttemptStatus
    BY <1>1 DEF IInv, TypeInv, BooksTypeOK
  <1>3. CASE status[a] \in TERMINAL_STATUSES /\ UNCHANGED status
    <2>1. e[2] # "processing" => status[a] = e[2]
      BY <1>1, <1>3 DEF IInv, ProviderInv, TerminalAgreesWithProvider, TERMINAL_STATUSES,
                        Truthful, Evidence
    <2>. QED BY <1>3, <2>1 DEF AppliedNotice, Past, TERMINAL_STATUSES
  <1>4. CASE status' = [status EXCEPT ![a] = e[2]]
    <2>1. status'[a] = e[2]
      BY <1>1, <1>4 DEF IInv, TypeInv, BooksTypeOK
    <2>. QED BY <2>1, <1>1 DEF AppliedNotice, Past
  <1>5. \/ status[a] \in TERMINAL_STATUSES /\ UNCHANGED status
        \/ status' = [status EXCEPT ![a] = e[2]]
    BY DEF ApplyAttemptWebhook, ApplyConfirmedFailureWithRefund, ApplyResultWithoutRefund,
           TransitionAndSync
  <1>. QED BY <1>3, <1>4, <1>5

LEMMA InvApply ==
    ASSUME IInv, InboxInv, NEW p \in Processes, Apply(p)
    PROVE  InboxInv'
  <1>1. UNCHANGED <<event, arrival>> /\ Goto(p, "txn2")
    BY DEF Apply
  <1>2. PICK e \in Events : e = proc[p].ev
    BY DEF Apply, InboxInv, ProcKnows
  <1>3. /\ Truthful(e) /\ e[2] # "unrecognized"
        /\ ApplyAttemptWebhook(e[1], e[2])
    BY <1>2 DEF Apply, InboxInv, ProcKnows, RowKnows
  <1>4. AppliedNotice(e)'
    BY <1>3, AppliedAfter
  <1>5. TypeInv /\ \A a \in Attempts : KeepsEvidence(a)
    BY ApplyIsWebhook, NextKeepsEvidence DEF Next, IInv
  <1>6. /\ \E x \in ProcStates : proc' = [proc EXCEPT ![p] = x]
        /\ proc'[p].pc = "txn2" /\ proc'[p].ev = e /\ proc'[p].todo = proc[p].todo
    BY <1>1, <1>2, InvGoto
  <1>7. event' \in [Events -> RowStates] /\ arrival' \in Seq(Events)
        /\ \A f \in Events : Known(f) => Known(f)'
    BY <1>1 DEF InboxInv, InboxTypeInv, RowStates, Known
  <1>8. \A f \in Events : RowKnows(f)'
    BY <1>1, <1>5, RowKept, NoticePair DEF InboxInv, Known
  <1>9. ProcKnows(p)'
    <2>1. ProcKnows(p) /\ Known(e)
      BY <1>2 DEF InboxInv, ProcKnows
    <2>. QED BY <1>1, <1>2, <1>3, <1>4, <1>6, <2>1 DEF ProcKnows, Known, AppliedNotice
  <1>. QED BY <1>5, <1>6, <1>7, <1>8, <1>9, InboxStep

(* A row is marked by a process that holds it.                              *)
LEMMA InvMark ==
    ASSUME InboxInv, TypeInv, NEW p \in Processes, NEW e \in Events, NEW row \in RowStates,
           event' = [event EXCEPT ![e] = row], row.st # "none",
           Known(e), row.st = "resolved" => AppliedNotice(e) /\ e[2] # "unrecognized",
           DoneWith(p), UNCHANGED <<vars, arrival>>
    PROVE  InboxInv'
  <1>1. \A a \in Attempts : KeepsEvidence(a)
    BY StutterKeepsEvidence DEF vars
  <1>2. /\ event' \in [Events -> RowStates] /\ arrival' \in Seq(Events)
        /\ event'[e] = row
        /\ \A f \in Events \ {e} : event'[f] = event[f]
    BY DEF InboxInv, InboxTypeInv, RowStates
  <1>3. \A f \in Events : Known(f) => Known(f)'
    BY <1>2 DEF Known
  <1>4. ASSUME NEW f \in Events
        PROVE  RowKnows(f)'
    <2>1. KeepsEvidence(f[1]) /\ RowKnows(f)
      BY <1>1, NoticePair DEF InboxInv
    <2>2. CASE f = e
      BY <1>2, <2>1, <2>2, NoticeKept DEF RowKnows
    <2>3. CASE f # e
      BY <1>2, <2>1, <2>3, RowKept DEF Known
    <2>. QED BY <2>2, <2>3
  <1>5. \E x \in ProcStates : proc' = [proc EXCEPT ![p] = x] /\ ProcKnows(p)'
    BY <1>3, InvDoneWith
  <1>. QED BY <1>1, <1>2, <1>3, <1>4, <1>5, InboxStep

LEMMA InvMarkResolved ==
    ASSUME InboxInv, TypeInv, NEW p \in Processes, MarkResolved(p)
    PROVE  InboxInv'
  <1>1. PICK e \in Events : e = proc[p].ev
    BY DEF MarkResolved, InboxInv, ProcKnows
  <1>. DEFINE row == [st |-> "resolved", retries |-> event[e].retries]
  <1>2. row \in RowStates /\ row.st = "resolved"
    BY DEF InboxInv, InboxTypeInv, RowStates
  <1>3. event' = [event EXCEPT ![e] = row]
    BY <1>1 DEF MarkResolved, InboxInv, InboxTypeInv
  <1>4. Known(e) /\ AppliedNotice(e) /\ e[2] # "unrecognized"
    BY <1>1 DEF MarkResolved, InboxInv, ProcKnows
  <1>5. DoneWith(p) /\ UNCHANGED <<vars, arrival>>
    BY DEF MarkResolved
  <1>. HIDE DEF row
  <1>. QED BY <1>2, <1>3, <1>4, <1>5, InvMark

(* _mark_webhook_event_unresolved(): a resolved row stays resolved.         *)
LEMMA MarkedUnresolvedRow ==
    ASSUME InboxTypeInv, NEW e \in Events, NEW bump \in BOOLEAN, Known(e)
    PROVE  /\ MarkedUnresolved(e, bump) \in RowStates
           /\ MarkedUnresolved(e, bump).st # "none"
           /\ MarkedUnresolved(e, bump).st = "resolved" <=> event[e].st = "resolved"
           /\ event[e].st = "manual_review" => MarkedUnresolved(e, bump).st = "manual_review"
  <1>1. PICK st \in {"none", "pending", "resolved", "manual_review"}, n \in 0..MaxAutoRetries :
           event[e] = [st |-> st, retries |-> n]
    BY DEF InboxTypeInv
  <1>2. MaxAutoRetries \in Nat
    BY InboxConstants
  <1>3. Bumped(e) \in 0..MaxAutoRetries
    BY <1>1, <1>2 DEF Bumped
  <1>. QED BY <1>1, <1>3 DEF MarkedUnresolved, RowStates, Known

LEMMA InvMarkUnresolved ==
    ASSUME InboxInv, TypeInv, NEW p \in Processes, MarkUnresolved(p)
    PROVE  InboxInv'
  <1>1. PICK e \in Events : e = proc[p].ev
    BY DEF MarkUnresolved, InboxInv, ProcKnows
  <1>2. PICK bump \in BOOLEAN : bump = (proc[p].pc = "orphan")
    OBVIOUS
  <1>3. PICK row : row = MarkedUnresolved(e, bump)
    OBVIOUS
  <1>4. event' = [event EXCEPT ![e] = row] /\ DoneWith(p) /\ UNCHANGED <<vars, arrival>>
    BY <1>1, <1>2, <1>3 DEF MarkUnresolved
  <1>5. Known(e) /\ RowKnows(e) /\ InboxTypeInv
    BY <1>1 DEF InboxInv, ProcKnows
  <1>6. row \in RowStates /\ row.st # "none" /\ (row.st = "resolved" <=> event[e].st = "resolved")
    BY <1>3, <1>5, MarkedUnresolvedRow
  <1>. QED BY <1>4, <1>5, <1>6, InvMark DEF RowKnows

(* The process forgets what it had, or takes up the next row.               *)
LEMMA InvRest ==
    ASSUME InboxInv, TypeInv, NEW p \in Processes,
           ApplyRaises(p) \/ ProcessCrash(p) \/ ReplayStart(p) \/ ReplayNext(p) \/ ReplayEnd(p)
    PROVE  InboxInv'
  <1>1. UNCHANGED <<vars, event, arrival>>
    BY DEF ApplyRaises, ProcessCrash, ReplayStart, ReplayNext, ReplayEnd
  <1>2. \A e \in Events : Known(e) => Known(e)'
    BY <1>1 DEF Known
  <1>3. ASSUME NEW pc \in {"idle", "crashed", "next"}, NEW todo \in SUBSET Events,
               \A e \in todo : Known(e),
               proc' = [proc EXCEPT ![p] = [pc |-> pc, ev |-> NoOne, todo |-> todo]]
        PROVE  InboxInv'
    <2>1. PICK x : x = [pc |-> pc, ev |-> NoOne, todo |-> todo]
      OBVIOUS
    <2>2. x \in ProcStates /\ x.pc = pc /\ x.ev = NoOne /\ x.todo = todo
      BY <2>1 DEF ProcStates
    <2>3. proc' = [proc EXCEPT ![p] = x]
      BY <1>3, <2>1
    <2>4. ProcKnows(p)'
      BY <1>2, <1>3, <2>2, <2>3, FreeProc
    <2>. QED BY <1>1, <2>2, <2>3, <2>4, InboxMove
  <1>4. CASE ApplyRaises(p) \/ ProcessCrash(p) \/ ReplayEnd(p)
    <2>1. PICK pc \in {"idle", "crashed"}, todo \in {{}} :
             proc' = [proc EXCEPT ![p] = [pc |-> pc, ev |-> NoOne, todo |-> todo]]
      BY <1>4 DEF ApplyRaises, ProcessCrash, ReplayEnd, IdleProc
    <2>. QED BY <2>1, <1>3
  <1>5. CASE ReplayStart(p)
    <2>1. PICK due \in SUBSET Pending :
             proc' = [proc EXCEPT ![p] =
                [pc |-> "next", ev |-> NoOne,
                 todo |-> {e \in due : Cardinality({f \in due : Newer(f, e)}) < BatchSize}]]
      BY <1>5 DEF ReplayStart
    <2>2. PICK todo : todo = {e \in due : Cardinality({f \in due : Newer(f, e)}) < BatchSize}
      OBVIOUS
    <2>3. todo \subseteq Events /\ \A e \in todo : Known(e)
      BY <2>1, <2>2 DEF Pending, Known
    <2>4. proc' = [proc EXCEPT ![p] = [pc |-> "next", ev |-> NoOne, todo |-> todo]]
      BY <2>1, <2>2
    <2>. QED BY <1>3, <2>3, <2>4
  <1>6. CASE ReplayNext(p)
    <2>1. PICK e \in proc[p].todo :
             proc' = [proc EXCEPT ![p] = [pc |-> "txn0", ev |-> e, todo |-> @.todo \ {e}]]
      BY <1>6 DEF ReplayNext
    <2>2. PICK x : x = [pc |-> "txn0", ev |-> e, todo |-> proc[p].todo \ {e}]
      OBVIOUS
    <2>3. proc[p].todo \subseteq Events /\ \A f \in proc[p].todo : Known(f)
      BY DEF InboxInv, InboxTypeInv, ProcKnows
    <2>4. x \in ProcStates /\ proc' = [proc EXCEPT ![p] = x]
      BY <2>1, <2>2, <2>3 DEF ProcStates
    <2>5. proc'[p] = x
      BY <2>4 DEF InboxInv, InboxTypeInv
    <2>6. ProcKnows(p)'
      BY <1>2, <2>2, <2>3, <2>5 DEF ProcKnows
    <2>. QED BY <1>1, <2>4, <2>6, InboxMove
  <1>. QED BY <1>4, <1>5, <1>6

(* Every step of the inbox is a step of the pipeline, or none.              *)
LEMMA InboxNextRefines ==
    ASSUME InboxInv, [InboxNext]_allVars
    PROVE  [Next]_vars
  <1>1. CASE UNCHANGED allVars
    BY <1>1 DEF allVars
  <1>2. CASE (Request \/ Submit \/ Provider \/ Reconcile) /\ UNCHANGED inboxVars
    BY <1>2 DEF Next
  <1>3. CASE Inbox
    <2>. PICK p \in Processes :
           \/ \E e \in Events : Deliver(p, e)
           \/ Pipeline(p) \/ ProcessCrash(p)
           \/ ReplayStart(p) \/ ReplayNext(p) \/ ReplayEnd(p)
      BY <1>3 DEF Inbox
    <2>1. CASE Apply(p)
      BY <2>1, ApplyIsWebhook DEF Next
    <2>2. CASE ~Apply(p)
      <3>1. UNCHANGED vars
        BY <2>2 DEF Deliver, Pipeline, Correlate, ApplyRaises, MarkResolved, MarkUnresolved,
                    ProcessCrash, ReplayStart, ReplayNext, ReplayEnd
      <3>. QED BY <3>1
    <2>. QED BY <2>1, <2>2
  <1>. QED BY <1>1, <1>2, <1>3 DEF InboxNext

LEMMA InboxInvNext ==
    ASSUME IInv, InboxInv, [InboxNext]_allVars
    PROVE  IInv' /\ InboxInv'
  <1>1. [Next]_vars
    BY InboxNextRefines
  <1>2. IInv' /\ TypeInv
    BY <1>1, InvNext DEF IInv
  <1>3. CASE UNCHANGED inboxVars
    BY <1>1, <1>2, <1>3, PipelineKeepsInbox
  <1>4. CASE Inbox
    BY <1>2, <1>4, InvDeliver, InvCorrelate, InvApply, InvMarkResolved, InvMarkUnresolved, InvRest
       DEF Inbox, Pipeline
  <1>. QED BY <1>2, <1>3, <1>4 DEF InboxNext, allVars, inboxVars

(* The rows, the processes between two transactions and the attempts know   *)
(* the truth of each other in every reachable state of the inbox.           *)
THEOREM InboxInvariant == InboxSpec => [](IInv /\ InboxInv)
  <1>1. InboxInit => IInv /\ InboxInv
    BY InvInit, InboxInvInit DEF InboxInit
  <1>. QED BY <1>1, InboxInvNext, PTL DEF InboxSpec

(* With its rows, its three transactions, its crashes and its replays the   *)
(* inbox does to withdrawals only what Payout's atomic webhook may do: the  *)
(* promise made to the client and every theorem about Spec carry over.      *)
THEOREM InboxRefines == InboxSpec => RefinesPayout
  <1>1. InboxInit => Init
    BY DEF InboxInit
  <1>2. InboxInv /\ [InboxNext]_allVars => [Next]_vars
    BY InboxNextRefines
  <1>. QED BY <1>1, <1>2, InboxInvariant, PTL DEF InboxSpec, RefinesPayout, Spec

(* In particular no crash between two transactions of the inbox, no replay  *)
(* and no redelivery loses money, returns it while the provider may pay, or *)
(* breaks the books.                                                        *)
THEOREM InboxIsSafe ==
    InboxSpec => [](WalletBalances /\ RefundsAreSafe /\ BooksFollowTheProvider /\ DualControl)
  <1>. DEFINE Safe == WalletBalances /\ RefundsAreSafe /\ BooksFollowTheProvider /\ DualControl
  <1>1. Spec => []Safe
    BY WalletsBalance, RefundsSafe, BooksFollow, TwoAdministrators, PTL
  <1>. QED BY <1>1, InboxRefines, PTL DEF RefinesPayout

(* The types of the rows and program counters.                              *)
THEOREM InboxTypeCorrect == InboxSpec => []InboxTypeOK
  <1>1. InboxInv => InboxTypeOK
    BY DEF InboxInv, InboxTypeInv, InboxTypeOK
  <1>. QED BY <1>1, InboxInvariant, PTL

(* A RESOLVED row has been applied, whatever crashed between the            *)
(* transactions of process_webhook_event() or was delivered twice.          *)
THEOREM ResolvedIsApplied == InboxSpec => []ResolvedMeansApplied
  <1>1. IInv /\ InboxInv => ResolvedMeansApplied
    <2> SUFFICES ASSUME IInv, InboxInv, NEW e \in Events, event[e].st = "resolved"
                 PROVE  IF e[2] = "processing" THEN status[e[1]] \notin {"none", "submitted", "unknown"}
                        ELSE status[e[1]] = e[2]
      BY DEF ResolvedMeansApplied
    <2>1. AppliedNotice(e)
      BY DEF InboxInv, RowKnows
    <2>. QED BY <2>1 DEF AppliedNotice, Past
  <1>. QED BY <1>1, InboxInvariant, PTL

(* A status the code does not know never ends RESOLVED.                     *)
THEOREM UnrecognizedStays == InboxSpec => []UnrecognizedNeverResolved
  <1>1. InboxInv => UnrecognizedNeverResolved
    BY DEF InboxInv, RowKnows, UnrecognizedNeverResolved
  <1>. QED BY <1>1, InboxInvariant, PTL

Advances(e) ==
    /\ event[e].st = "resolved" => event'[e].st = "resolved"
    /\ event[e].st = "manual_review" => event'[e].st \in {"manual_review", "resolved"}
    /\ event[e].st # "none" => event'[e].st # "none"

LEMMA InboxNextAdvances ==
    ASSUME InboxInv, [InboxNext]_allVars, NEW e \in Events
    PROVE  Advances(e)
  <1>1. CASE UNCHANGED event
    BY <1>1 DEF Advances
  <1>2. ASSUME NEW p \in Processes, NEW f \in Events, Deliver(p, f)
        PROVE  Advances(e)
    BY <1>2 DEF Deliver, get_or_create_webhook_event, Advances, InboxInv, InboxTypeInv
  <1>3. ASSUME NEW p \in Processes, MarkResolved(p)
        PROVE  Advances(e)
    BY <1>3 DEF MarkResolved, Advances, InboxInv, InboxTypeInv, ProcKnows
  <1>4. ASSUME NEW p \in Processes, MarkUnresolved(p)
        PROVE  Advances(e)
    <2>1. PICK f \in Events : f = proc[p].ev
      BY <1>4 DEF MarkUnresolved, InboxInv, ProcKnows
    <2>2. PICK bump \in BOOLEAN : bump = (proc[p].pc = "orphan")
      OBVIOUS
    <2>3. PICK row : row = MarkedUnresolved(f, bump)
      OBVIOUS
    <2>4. event' = [event EXCEPT ![f] = row]
      BY <1>4, <2>1, <2>2, <2>3 DEF MarkUnresolved
    <2>5. Known(f) /\ InboxTypeInv
      BY <2>1 DEF InboxInv, ProcKnows
    <2>6. /\ row.st # "none"
          /\ row.st = "resolved" <=> event[f].st = "resolved"
          /\ event[f].st = "manual_review" => row.st = "manual_review"
      BY <2>3, <2>5, MarkedUnresolvedRow
    <2>. QED BY <2>4, <2>5, <2>6 DEF Advances, InboxTypeInv
  <1>5. CASE Inbox
    <2>. PICK p \in Processes :
           \/ \E f \in Events : Deliver(p, f)
           \/ Pipeline(p) \/ ProcessCrash(p)
           \/ ReplayStart(p) \/ ReplayNext(p) \/ ReplayEnd(p)
      BY <1>5 DEF Inbox
    <2>1. CASE \/ Correlate(p) \/ Apply(p) \/ ApplyRaises(p) \/ ProcessCrash(p)
               \/ ReplayStart(p) \/ ReplayNext(p) \/ ReplayEnd(p)
      BY <1>1, <2>1 DEF Correlate, Apply, ApplyRaises, ProcessCrash, ReplayStart, ReplayNext, ReplayEnd
    <2>. QED BY <2>1, <1>2, <1>3, <1>4 DEF Pipeline
  <1>. QED BY <1>1, <1>5 DEF InboxNext, allVars, inboxVars

(* No process downgrades or loses a row that another has advanced.          *)
THEOREM RowsAdvance == InboxSpec => RowsOnlyAdvance
  <1>1. InboxInv /\ [InboxNext]_allVars
        => [\A e \in Events :
               /\ event[e].st = "resolved" => event'[e].st = "resolved"
               /\ event[e].st = "manual_review" => event'[e].st \in {"manual_review", "resolved"}
               /\ event[e].st # "none" => event'[e].st # "none"]_allVars
    BY InboxNextAdvances DEF Advances
  <1>. QED BY <1>1, InboxInvariant, PTL DEF InboxSpec, RowsOnlyAdvance
=============================================================================

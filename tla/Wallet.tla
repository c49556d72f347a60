------------------------------- MODULE Wallet -------------------------------
(***************************************************************************)
(* How money gets into a client's wallet and out of it: crypto deposits,   *)
(* challenge purchases, and transfers to and from a trading account.       *)
(*                                                                         *)
(* A deposit row is written by three parties that do not know of each      *)
(* other: the view that creates the payment, the provider's IPN callback,  *)
(* and the status page, which polls the provider and takes no lock.        *)
(*                                                                         *)
(*   simulator/views.py           deposit_..., challenge_..._purchase_view *)
(*   simulator/wallet_ledger.py   transfer_to_account, transfer_to_wallet  *)
(***************************************************************************)
EXTENDS Integers, FiniteSets, FiniteSetsExt

CONSTANTS
    TopUps,       \* Deposit rows that fund the wallet
    Purchases,    \* ... and those that pay for a challenge
    Underpaid,    \* deposits for which the provider received too little
    Transfers,    \* InternalTransfer rows
    Amount,       \* amount_usd of each deposit
    Price,        \* price_usd of the challenge product
    TransferAmount,
    Funded,       \* what the trading account holds to begin with
    MaxPending    \* how far repeated notices may drive pending_balance (a bound)

Deposits == TopUps \cup Purchases

ASSUME WalletAssumption ==
    /\ IsFiniteSet(Deposits) /\ TopUps \cap Purchases = {}
    /\ Underpaid \subseteq Deposits
    /\ Amount \in [Deposits -> Nat \ {0}]
    /\ Funded \in Nat
    /\ {Price, TransferAmount, MaxPending} \subseteq Nat \ {0}

VARIABLES
    deposit,     \* the Deposit rows
    creating,    \* program counter of the view that creates each of them
    payment,     \* the provider's status of the payment
    ipn,         \* the statuses the provider has sent so far, in any order
    polled,      \* what the status page was told and has not yet written
    available,   \* Wallet.available_balance
    pending,     \* Wallet.pending_balance
    credits,     \* number of wallet credits, and of enrollments, of a deposit
    enrolled,    \* the user has an active enrollment for the product
    purchased,   \* number of challenges paid from the wallet
    account,     \* balance of the trading account
    transfer     \* status of each InternalTransfer, and its direction

depositVars == <<deposit, creating, payment, ipn, polled>>
vars == <<depositVars, available, pending, credits, enrolled, purchased,
          account, transfer>>

(* The other ones (sending, partially_paid, expired, refunded) are recorded *)
(* like a failure and change nothing else.                                  *)
Statuses == {"waiting", "confirming", "confirmed", "finished", "failed"}
CREDITED_STATUSES == {"finished", "confirmed"}

NoDeposit == [status |-> "none", credited |-> FALSE, paymentId |-> FALSE, payAmount |-> FALSE]
NoTransfer == [status |-> "none", toAccount |-> TRUE]

TypeOK ==
    /\ deposit \in [Deposits -> [status : {"none", "pending"} \cup Statuses, credited : BOOLEAN,
                                 paymentId : BOOLEAN, payAmount : BOOLEAN]]
    /\ creating \in [Deposits -> {"idle", "asking", "answered"}]
    /\ payment \in [Deposits -> {"none"} \cup Statuses]
    /\ ipn \in [Deposits -> SUBSET Statuses]
    /\ polled \in [Deposits -> {"none"} \cup Statuses]
    /\ available \in Nat
    /\ pending \in Int
    /\ credits \in [Deposits -> Nat]
    /\ enrolled \in BOOLEAN
    /\ purchased \in Nat
    /\ account \in Nat
    /\ transfer \in [Transfers -> [status : {"none", "PENDING", "COMPLETED", "FAILED"},
                                   toAccount : BOOLEAN]]

Init ==
    /\ deposit = [d \in Deposits |-> NoDeposit]
    /\ creating = [d \in Deposits |-> "idle"]
    /\ payment = [d \in Deposits |-> "none"]
    /\ ipn = [d \in Deposits |-> {}]
    /\ polled = [d \in Deposits |-> "none"]
    /\ available = 0 /\ pending = 0
    /\ credits = [d \in Deposits |-> 0]
    /\ enrolled = FALSE /\ purchased = 0
    /\ account = Funded
    /\ transfer = [t \in Transfers |-> NoTransfer]

MoneyUnchanged == UNCHANGED <<available, pending, credits, enrolled, purchased,
                              account, transfer>>

-----------------------------------------------------------------------------
(* Creating a deposit: the row, then the provider's payment, then the row   *)
(* again with what the provider answered, whatever has happened to it.      *)

CreateDeposit(d) ==
    /\ deposit[d].status = "none"
    /\ deposit' = [deposit EXCEPT ![d].status = "pending"]
    /\ creating' = [creating EXCEPT ![d] = "asking"]
    /\ UNCHANGED <<payment, ipn, polled>>
    /\ MoneyUnchanged

ProviderCreates(d) ==
    /\ creating[d] = "asking"
    /\ payment' = [payment EXCEPT ![d] = "waiting"]
    /\ ipn' = [ipn EXCEPT ![d] = {"waiting"}]
    /\ creating' = [creating EXCEPT ![d] = "answered"]
    /\ UNCHANGED <<deposit, polled>>
    /\ MoneyUnchanged

SavePayment(d) ==
    /\ creating[d] = "answered"
    /\ deposit' = [deposit EXCEPT ![d].status = "waiting", ![d].paymentId = TRUE,
                                  ![d].payAmount = TRUE]
    /\ creating' = [creating EXCEPT ![d] = "idle"]
    /\ UNCHANGED <<payment, ipn, polled>>
    /\ MoneyUnchanged

(* The call raises: before the payment exists, or after, on a timeout.      *)
CreationFails(d) ==
    /\ creating[d] # "idle"
    /\ deposit' = [deposit EXCEPT ![d].status = "failed"]
    /\ creating' = [creating EXCEPT ![d] = "idle"]
    /\ UNCHANGED <<payment, ipn, polled>>
    /\ MoneyUnchanged

(* The customer pays and the provider goes on; it sends each new status.    *)
Following(s) ==
    CASE s = "waiting" -> {"confirming", "failed"}
      [] s = "confirming" -> {"confirmed", "failed"}
      [] s = "confirmed" -> {"finished"}
      [] OTHER -> {}

ProviderAdvances(d) ==
    /\ payment[d] # "none"
    /\ \E s \in Following(payment[d]) :
          /\ payment' = [payment EXCEPT ![d] = s]
          /\ ipn' = [ipn EXCEPT ![d] = @ \cup {s}]
    /\ UNCHANGED <<deposit, creating, polled>>
    /\ MoneyUnchanged

-----------------------------------------------------------------------------
(* deposit_callback.  A notice may be lost, late or repeated.  The row is   *)
(* locked for the whole handler, and an error undoes all of it.             *)

M_Finds_ByPaymentId(d) == deposit[d].paymentId

(* By the payment's id or, failing that, by the order id.                   *)
Finds(d) == deposit[d].status # "none"

M_Settled_ByStatus(d) == deposit[d].status \in CREDITED_STATUSES

Settled(d) == deposit[d].credited

SufficientlyPaid(d) == deposit[d].payAmount /\ d \notin Underpaid

Recorded(d, s, credited) ==
    deposit' = [deposit EXCEPT ![d].status = s, ![d].credited = credited,
                               ![d].paymentId = TRUE]

(* A wallet deposit is credited, and leaves the balance in flight.          *)
CreditTopUp(d, s) ==
    /\ d \in TopUps
    /\ s \in CREDITED_STATUSES
    /\ available' = available + Amount[d]
    /\ pending' = IF deposit[d].status = "confirming" THEN pending - Amount[d] ELSE pending
    /\ credits' = [credits EXCEPT ![d] = @ + 1]
    /\ Recorded(d, s, TRUE)
    /\ UNCHANGED enrolled

(* A purchase creates the enrollment.  While the user has another active    *)
(* one the unique constraint refuses it, and the whole callback with it.    *)
FulfillPurchase(d, s) ==
    /\ d \in Purchases
    /\ s \in CREDITED_STATUSES
    /\ SufficientlyPaid(d)
    /\ ~enrolled
    /\ enrolled' = TRUE
    /\ credits' = [credits EXCEPT ![d] = @ + 1]
    /\ Recorded(d, s, TRUE)
    /\ UNCHANGED <<available, pending>>

UnderpaidPurchase(d, s) ==
    /\ d \in Purchases
    /\ s \in CREDITED_STATUSES
    /\ ~SufficientlyPaid(d)
    /\ Recorded(d, s, FALSE)
    /\ UNCHANGED <<available, pending, credits, enrolled>>

RecordStatus(d, s) ==
    /\ s \notin CREDITED_STATUSES
    /\ pending' = IF s = "confirming" /\ deposit[d].status # "confirming"
                  THEN pending + Amount[d]
                  ELSE pending
    /\ pending' <= MaxPending
    /\ Recorded(d, s, deposit[d].credited)
    /\ UNCHANGED <<available, credits, enrolled>>

Callback(d, s) ==
    /\ s \in ipn[d]
    /\ Finds(d)
    /\ ~Settled(d)
    /\ \/ CreditTopUp(d, s)
       \/ FulfillPurchase(d, s)
       \/ UnderpaidPurchase(d, s)
       \/ RecordStatus(d, s)
    /\ UNCHANGED <<creating, payment, ipn, polled, purchased, account, transfer>>

(* deposit_status_json: the status page asks the provider about a row not   *)
(* yet settled, and writes the answer without looking again.  The row and   *)
(* the answer are read in one step: what the provider does in between could *)
(* as well have come before, and what a callback does then is not seen.     *)
PollAsk(d) ==
    /\ polled[d] = "none"
    /\ ~deposit[d].credited
    /\ deposit[d].paymentId
    /\ deposit[d].status # "failed"
    /\ payment[d] # deposit[d].status
    /\ polled' = [polled EXCEPT ![d] = payment[d]]
    /\ UNCHANGED <<deposit, creating, payment, ipn>>
    /\ MoneyUnchanged

PollWrite(d) ==
    /\ polled[d] # "none"
    /\ deposit' = [deposit EXCEPT ![d].status = polled[d]]
    /\ polled' = [polled EXCEPT ![d] = "none"]
    /\ UNCHANGED <<creating, payment, ipn>>
    /\ MoneyUnchanged

-----------------------------------------------------------------------------
(* Spending it.                                                              *)

(* challenge_wallet_purchase_view: the enrollment first, then the debit; if *)
(* either is refused the transaction leaves nothing behind.                 *)
PurchaseFromWallet ==
    /\ available >= Price
    /\ ~enrolled
    /\ available' = available - Price
    /\ enrolled' = TRUE
    /\ purchased' = purchased + 1
    /\ UNCHANGED <<depositVars, pending, credits, account, transfer>>

EnrollmentFails ==
    /\ enrolled
    /\ enrolled' = FALSE
    /\ UNCHANGED <<depositVars, available, pending, credits, purchased, account,
                   transfer>>

(* A transfer is recorded as PENDING and carried out in a transaction.      *)
StartTransfer(t, toAccount) ==
    /\ transfer[t].status = "none"
    /\ transfer' = [transfer EXCEPT ![t] = [status |-> "PENDING", toAccount |-> toAccount]]
    /\ UNCHANGED <<depositVars, available, pending, credits, enrolled, purchased,
                   account>>

(* transfer_to_account: an empty wallet fails it.                           *)
M_TransferToAccount_CreditsFirst(t) ==
    /\ transfer[t] = [status |-> "PENDING", toAccount |-> TRUE]
    /\ account' = account + TransferAmount
    /\ IF available >= TransferAmount
       THEN /\ available' = available - TransferAmount
            /\ transfer' = [transfer EXCEPT ![t].status = "COMPLETED"]
       ELSE /\ transfer' = [transfer EXCEPT ![t].status = "FAILED"]
            /\ UNCHANGED available
    /\ UNCHANGED <<depositVars, pending, credits, enrolled, purchased>>

TransferToAccount(t) ==
    /\ transfer[t] = [status |-> "PENDING", toAccount |-> TRUE]
    /\ IF available >= TransferAmount
       THEN /\ available' = available - TransferAmount
            /\ account' = account + TransferAmount
            /\ transfer' = [transfer EXCEPT ![t].status = "COMPLETED"]
       ELSE /\ transfer' = [transfer EXCEPT ![t].status = "FAILED"]
            /\ UNCHANGED <<available, account>>
    /\ UNCHANGED <<depositVars, pending, credits, enrolled, purchased>>

(* transfer_to_wallet: so do a balance that is too low and open positions,  *)
(* which the account, locked by now, may have or not.                       *)
TransferToWallet(t, positions) ==
    /\ transfer[t] = [status |-> "PENDING", toAccount |-> FALSE]
    /\ IF ~positions /\ account >= TransferAmount
       THEN /\ available' = available + TransferAmount
            /\ account' = account - TransferAmount
            /\ transfer' = [transfer EXCEPT ![t].status = "COMPLETED"]
       ELSE /\ transfer' = [transfer EXCEPT ![t].status = "FAILED"]
            /\ UNCHANGED <<available, account>>
    /\ UNCHANGED <<depositVars, pending, credits, enrolled, purchased>>

Next ==
    \/ \E d \in Deposits :
        \/ CreateDeposit(d)
        \/ ProviderCreates(d)
        \/ SavePayment(d)
        \/ CreationFails(d)
        \/ ProviderAdvances(d)
        \/ \E s \in Statuses : Callback(d, s)
        \/ PollAsk(d)
        \/ PollWrite(d)
    \/ PurchaseFromWallet
    \/ EnrollmentFails
    \/ \E t \in Transfers :
        \/ \E toAccount \in BOOLEAN : StartTransfer(t, toAccount)
        \/ TransferToAccount(t)
        \/ \E positions \in BOOLEAN : TransferToWallet(t, positions)

Spec == Init /\ [][Next]_vars

(* The provider repeats a final notice until the callback answers 200.      *)
FairSpec == Spec /\ \A d \in Deposits : WF_vars(Callback(d, "finished"))

-----------------------------------------------------------------------------
(* A deposit is credited, or turned into an enrollment, once, and its row   *)
(* says so for good: no late view, stale poll or repeated IPN undoes it.    *)
CreditedOnce ==
    \A d \in Deposits : credits[d] = IF deposit[d].credited THEN 1 ELSE 0

Credited == SumFunctionOnSet([d \in TopUps |-> Amount[d] * credits[d]], TopUps)

(* No money appears or is lost: what was deposited is in the wallet, in the *)
(* trading account, or was spent on challenges; a transfer or a purchase    *)
(* that fails half-way leaves both sides as they were.                      *)
MoneyConserved == available + account + Price * purchased = Funded + Credited

(* A payment that the provider has finished reaches the wallet, even when   *)
(* the view that created it never learned its identity.                     *)
FinishedIsCredited ==
    \A d \in TopUps : payment[d] = "finished" ~> deposit[d].credited
=============================================================================

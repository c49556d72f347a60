---------------------------- MODULE Wallet_proofs ----------------------------
(***************************************************************************)
(* Theorems about Wallet, for any set of deposits and transfers, any       *)
(* amounts and any number of repeated notices.                             *)
(***************************************************************************)
EXTENDS Wallet, SumLemmas, TLAPS

DepositRow == [status : {"none", "pending"} \cup Statuses, credited : BOOLEAN,
               paymentId : BOOLEAN, payAmount : BOOLEAN]
TransferRow == [status : {"none", "PENDING", "COMPLETED", "FAILED"}, toAccount : BOOLEAN]

(* TypeOK in two halves: the rows and the threads, and the money.           *)
RowsTyped ==
    /\ deposit \in [Deposits -> DepositRow]
    /\ creating \in [Deposits -> {"idle", "asking", "answered"}]
    /\ payment \in [Deposits -> {"none"} \cup Statuses]
    /\ ipn \in [Deposits -> SUBSET Statuses]
    /\ polled \in [Deposits -> {"none"} \cup Statuses]
    /\ enrolled \in BOOLEAN
    /\ transfer \in [Transfers -> TransferRow]
MoneyTyped ==
    /\ available \in Nat /\ account \in Nat /\ purchased \in Nat
    /\ pending \in Int
    /\ credits \in [Deposits -> Nat]

IInv == RowsTyped /\ MoneyTyped /\ CreditedOnce

(* All the money a client has or has spent, in one number.                  *)
Holdings == available + account + Price * purchased

(* A step moves money between the parts, or credits one deposit.            *)
OneCredit ==
    \/ Holdings' = Holdings /\ \A e \in TopUps : credits'[e] = credits[e]
    \/ \E d \in TopUps : /\ credits[d] = 0 /\ credits'[d] = 1
                         /\ \A e \in TopUps \ {d} : credits'[e] = credits[e]
                         /\ Holdings' = Holdings + Amount[d]

LEMMA TypeOKSplit == TypeOK <=> RowsTyped /\ MoneyTyped
  BY Zenon DEF TypeOK, RowsTyped, MoneyTyped, DepositRow, TransferRow

LEMMA InvInit == Init => IInv
<1>. SUFFICES ASSUME Init PROVE IInv
  OBVIOUS
<1>1. deposit \in [Deposits -> DepositRow] /\ transfer \in [Transfers -> TransferRow]
  BY DEF Init, DepositRow, TransferRow, NoDeposit, NoTransfer
<1>2. RowsTyped
  BY <1>1 DEF Init, RowsTyped
<1>3. MoneyTyped
  BY WalletAssumption DEF Init, MoneyTyped, WalletAssumption
<1>4. CreditedOnce
  BY DEF Init, CreditedOnce, NoDeposit
<1>. QED BY <1>2, <1>3, <1>4 DEF IInv

LEMMA RecordedRow ==
    ASSUME deposit \in [Deposits -> DepositRow], NEW d \in Deposits, NEW s \in Statuses,
           NEW c \in BOOLEAN, Recorded(d, s, c)
    PROVE  /\ deposit' \in [Deposits -> DepositRow]
           /\ deposit'[d].credited = c
           /\ \A e \in Deposits \ {d} : deposit'[e] = deposit[e]
<1>1. deposit' \in [Deposits -> DepositRow]
  <2>. DEFINE R == [Deposits -> DepositRow]
  <2>1. PICK f \in R : f = [deposit EXCEPT ![d].status = s]
    BY DEF DepositRow
  <2>2. PICK g \in R : g = [f EXCEPT ![d].credited = c]
    BY Zenon DEF DepositRow
  <2>3. [g EXCEPT ![d].paymentId = TRUE] \in R
    BY Zenon DEF DepositRow
  <2>4. deposit' = [g EXCEPT ![d].paymentId = TRUE]
    BY <2>1, <2>2, Zenon DEF Recorded
  <2>. QED BY <2>3, <2>4
<1>2. deposit'[d].credited = c
  BY DEF Recorded, DepositRow
<1>3. \A e \in Deposits \ {d} : deposit'[e] = deposit[e]
  BY DEF Recorded
<1>. QED BY <1>1, <1>2, <1>3

(* The handler neither credits a row nor changes its flag ...               *)
LEMMA FlagKept ==
    ASSUME CreditedOnce, UNCHANGED credits,
           \A e \in Deposits : deposit'[e].credited = deposit[e].credited
    PROVE  CreditedOnce'
  BY DEF CreditedOnce

(* ... or does both to one.                                                 *)
LEMMA FlagSet ==
    ASSUME IInv, NEW d \in Deposits, ~deposit[d].credited,
           credits' = [credits EXCEPT ![d] = @ + 1],
           deposit'[d].credited = TRUE,
           \A e \in Deposits \ {d} : deposit'[e] = deposit[e]
    PROVE  /\ CreditedOnce' /\ credits[d] = 0 /\ credits'[d] = 1
           /\ credits' \in [Deposits -> Nat]
           /\ \A e \in Deposits \ {d} : credits'[e] = credits[e]
<1>1. credits[d] = 0 /\ credits \in [Deposits -> Nat]
  BY DEF IInv, CreditedOnce, MoneyTyped
<1>2. credits'[d] = 1 /\ credits' \in [Deposits -> Nat]
  BY <1>1
<1>3. \A e \in Deposits \ {d} : credits'[e] = credits[e]
  BY <1>1
<1>4. CreditedOnce'
  BY <1>2, <1>3 DEF IInv, CreditedOnce
<1>. QED BY <1>1, <1>2, <1>3, <1>4

(* What the callback does to a row that was not credited yet.               *)
LEMMA CallbackStep ==
    ASSUME IInv, NEW d \in Deposits, NEW s \in Statuses, Callback(d, s)
    PROVE  IInv' /\ OneCredit
<1>1. UNCHANGED <<creating, payment, ipn, polled, purchased, account, transfer>>
  BY DEF Callback
<1>2. ~deposit[d].credited /\ deposit \in [Deposits -> DepositRow]
  BY DEF Callback, Settled, IInv, RowsTyped
<1>3. CASE CreditTopUp(d, s)
  <2>1. /\ credits' = [credits EXCEPT ![d] = @ + 1] /\ d \in TopUps
        /\ available' = available + Amount[d] /\ enrolled' = enrolled
    BY <1>3 DEF CreditTopUp
  <2>2. Recorded(d, s, TRUE) /\ TRUE \in BOOLEAN
    BY <1>3 DEF CreditTopUp
  <2>3. /\ deposit' \in [Deposits -> DepositRow] /\ deposit'[d].credited = TRUE
        /\ \A e \in Deposits \ {d} : deposit'[e] = deposit[e]
    BY <1>2, <2>2, RecordedRow
  <2>4. /\ CreditedOnce' /\ credits[d] = 0 /\ credits'[d] = 1 /\ credits' \in [Deposits -> Nat]
        /\ \A e \in TopUps \ {d} : credits'[e] = credits[e]
    BY <1>2, <2>1, <2>3, FlagSet DEF Deposits
  <2>5. Amount[d] \in Nat
    BY WalletAssumption DEF WalletAssumption
  <2>6. MoneyTyped'
    BY <1>1, <1>3, <2>1, <2>4, <2>5 DEF IInv, MoneyTyped, CreditTopUp
  <2>7. RowsTyped'
    BY <1>1, <2>1, <2>3 DEF IInv, RowsTyped
  <2>8. Price * purchased \in Int
    BY WalletAssumption DEF WalletAssumption, IInv, MoneyTyped
  <2>9. Holdings' = Holdings + Amount[d]
    BY <1>1, <2>1, <2>5, <2>8 DEF Holdings, IInv, MoneyTyped
  <2>. QED BY <2>1, <2>4, <2>6, <2>7, <2>9 DEF OneCredit, IInv
<1>4. CASE FulfillPurchase(d, s)
  <2>1. /\ credits' = [credits EXCEPT ![d] = @ + 1]
        /\ UNCHANGED <<available, pending>> /\ enrolled' \in BOOLEAN
    BY <1>4 DEF FulfillPurchase
  <2>2. Recorded(d, s, TRUE) /\ TRUE \in BOOLEAN
    BY <1>4 DEF FulfillPurchase
  <2>3. /\ deposit' \in [Deposits -> DepositRow] /\ deposit'[d].credited = TRUE
        /\ \A e \in Deposits \ {d} : deposit'[e] = deposit[e]
    BY <1>2, <2>2, RecordedRow
  <2>4. /\ CreditedOnce' /\ credits' \in [Deposits -> Nat]
        /\ \A e \in Deposits \ {d} : credits'[e] = credits[e]
    BY <1>2, <2>1, <2>3, FlagSet
  <2>5. RowsTyped' /\ MoneyTyped'
    BY <1>1, <2>1, <2>3, <2>4 DEF IInv, RowsTyped, MoneyTyped
  <2>6. Holdings' = Holdings
    BY <1>1, <2>1 DEF Holdings
  <2>7. \A e \in TopUps : credits'[e] = credits[e]
    BY <2>4, <1>4, WalletAssumption DEF WalletAssumption, Deposits, FulfillPurchase
  <2>. QED BY <2>4, <2>5, <2>6, <2>7 DEF OneCredit, IInv
<1>5. CASE UnderpaidPurchase(d, s)
  <2>1. UNCHANGED <<available, pending, credits, enrolled>>
    BY <1>5 DEF UnderpaidPurchase
  <2>2. Recorded(d, s, FALSE) /\ FALSE \in BOOLEAN
    BY <1>5 DEF UnderpaidPurchase
  <2>3. /\ deposit' \in [Deposits -> DepositRow] /\ deposit'[d].credited = FALSE
        /\ \A e \in Deposits \ {d} : deposit'[e] = deposit[e]
    BY <1>2, <2>2, RecordedRow
  <2>4. deposit[d].credited = FALSE
    BY <1>2 DEF DepositRow
  <2>5. CreditedOnce'
    BY <2>1, <2>3, <2>4, FlagKept DEF IInv
  <2>6. RowsTyped' /\ MoneyTyped'
    BY <1>1, <2>1, <2>3 DEF IInv, RowsTyped, MoneyTyped
  <2>7. Holdings' = Holdings
    BY <1>1, <2>1 DEF Holdings
  <2>. QED BY <2>1, <2>5, <2>6, <2>7 DEF OneCredit, IInv
<1>6. CASE RecordStatus(d, s)
  <2>1. UNCHANGED <<available, credits, enrolled>>
    BY <1>6 DEF RecordStatus
  <2>2. Recorded(d, s, deposit[d].credited) /\ deposit[d].credited \in BOOLEAN
    BY <1>2, <1>6 DEF RecordStatus, DepositRow
  <2>3. /\ deposit' \in [Deposits -> DepositRow] /\ deposit'[d].credited = deposit[d].credited
        /\ \A e \in Deposits \ {d} : deposit'[e] = deposit[e]
    BY <1>2, <2>2, RecordedRow
  <2>4. CreditedOnce'
    BY <2>1, <2>3, FlagKept DEF IInv
  <2>5. pending' \in Int
    <3>1. Amount[d] \in Nat /\ pending \in Int
      BY WalletAssumption DEF WalletAssumption, IInv, MoneyTyped
    <3>. QED BY <3>1, <1>6 DEF RecordStatus
  <2>6. RowsTyped' /\ MoneyTyped'
    BY <1>1, <2>1, <2>3, <2>5 DEF IInv, RowsTyped, MoneyTyped
  <2>7. Holdings' = Holdings
    BY <1>1, <2>1 DEF Holdings
  <2>. QED BY <2>1, <2>4, <2>6, <2>7 DEF OneCredit, IInv
<1>. QED BY <1>3, <1>4, <1>5, <1>6 DEF Callback

(* The rows' own life: no money moves and no flag changes.                  *)
RowOnly(d) ==
    \/ CreateDeposit(d) \/ ProviderCreates(d) \/ SavePayment(d) \/ CreationFails(d)
    \/ ProviderAdvances(d) \/ PollAsk(d) \/ PollWrite(d)

LEMMA RowOnlyStep ==
    ASSUME IInv, NEW d \in Deposits, RowOnly(d)
    PROVE  IInv' /\ OneCredit
<1>1. MoneyUnchanged
  BY Zenon DEF RowOnly, CreateDeposit, ProviderCreates, SavePayment, CreationFails,
               ProviderAdvances, PollAsk, PollWrite
<1>t. /\ deposit \in [Deposits -> DepositRow]
      /\ creating \in [Deposits -> {"idle", "asking", "answered"}]
      /\ payment \in [Deposits -> {"none"} \cup Statuses]
      /\ ipn \in [Deposits -> SUBSET Statuses]
      /\ polled \in [Deposits -> {"none"} \cup Statuses]
  BY DEF IInv, RowsTyped
<1>2. \/ UNCHANGED deposit
      \/ SavePayment(d)
      \/ \E s \in {"pending"} \cup Statuses : deposit' = [deposit EXCEPT ![d].status = s]
  BY <1>t DEF RowOnly, CreateDeposit, ProviderCreates, CreationFails, ProviderAdvances,
              PollAsk, PollWrite, Statuses
<1>3. /\ deposit' \in [Deposits -> DepositRow]
      /\ \A e \in Deposits : deposit'[e].credited = deposit[e].credited
  <2>1. CASE SavePayment(d)
    <3>1. deposit' = [deposit EXCEPT ![d].status = "waiting", ![d].paymentId = TRUE,
                                     ![d].payAmount = TRUE]
      BY <2>1 DEF SavePayment
    <3>2. "waiting" \in Statuses
      BY DEF Statuses
    <3>. DEFINE row == [deposit[d] EXCEPT !.status = "waiting", !.paymentId = TRUE,
                                          !.payAmount = TRUE]
    <3>3. row \in DepositRow /\ row.credited = deposit[d].credited
      BY <1>t, <3>2 DEF DepositRow
    <3>4. deposit' = [deposit EXCEPT ![d] = row]
      BY <1>t, <3>1
    <3>. HIDE DEF row
    <3>. QED BY <1>t, <3>3, <3>4
  <2>2. ASSUME NEW s \in {"pending"} \cup Statuses, deposit' = [deposit EXCEPT ![d].status = s]
        PROVE  <1>3
    <3>1. s \in {"none", "pending"} \cup Statuses
      OBVIOUS
    <3>2. deposit' \in [Deposits -> DepositRow]
      BY <1>t, <2>2, <3>1, Zenon DEF DepositRow
    <3>. QED BY <1>t, <2>2, <3>2 DEF DepositRow
  <2>3. CASE UNCHANGED deposit
    BY <1>t, <2>3
  <2>. QED BY <1>2, <2>1, <2>2, <2>3
<1>4. creating' \in [Deposits -> {"idle", "asking", "answered"}]
  BY <1>t DEF RowOnly, CreateDeposit, ProviderCreates, SavePayment, CreationFails,
              ProviderAdvances, PollAsk, PollWrite
<1>5. /\ payment' \in [Deposits -> {"none"} \cup Statuses]
      /\ ipn' \in [Deposits -> SUBSET Statuses]
  <2>1. CASE ProviderAdvances(d)
    <3>1. PICK s \in Following(payment[d]) : /\ payment' = [payment EXCEPT ![d] = s]
                                             /\ ipn' = [ipn EXCEPT ![d] = @ \cup {s}]
      BY <2>1 DEF ProviderAdvances
    <3>2. s \in Statuses
      BY <3>1 DEF Following, Statuses
    <3>. QED BY <1>t, <3>1, <3>2
  <2>2. CASE ProviderCreates(d)
    BY <1>t, <2>2 DEF ProviderCreates, Statuses
  <2>3. CASE ~ProviderAdvances(d) /\ ~ProviderCreates(d)
    BY <1>t, <2>3 DEF RowOnly, CreateDeposit, SavePayment, CreationFails, PollAsk, PollWrite
  <2>. QED BY <2>1, <2>2, <2>3
<1>6. polled' \in [Deposits -> {"none"} \cup Statuses]
  BY <1>t DEF RowOnly, CreateDeposit, ProviderCreates, SavePayment, CreationFails,
              ProviderAdvances, PollAsk, PollWrite
<1>7. RowsTyped' /\ MoneyTyped' /\ UNCHANGED credits
  BY <1>1, <1>3, <1>4, <1>5, <1>6 DEF IInv, RowsTyped, MoneyTyped, MoneyUnchanged
<1>8. CreditedOnce'
  BY <1>3, <1>7, FlagKept DEF IInv
<1>9. Holdings' = Holdings
  BY <1>1 DEF MoneyUnchanged, Holdings
<1>. QED BY <1>7, <1>8, <1>9 DEF IInv, OneCredit

LEMMA TransferStep ==
    ASSUME IInv, NEW t \in Transfers, NEW positions \in BOOLEAN,
           TransferToAccount(t) \/ TransferToWallet(t, positions)
    PROVE  IInv' /\ OneCredit
<1>t. /\ transfer \in [Transfers -> TransferRow] /\ available \in Nat /\ account \in Nat
      /\ purchased \in Nat /\ Price \in Nat /\ TransferAmount \in Nat
  BY WalletAssumption DEF IInv, RowsTyped, MoneyTyped, WalletAssumption
<1>1. UNCHANGED <<depositVars, pending, credits, enrolled, purchased>>
  BY Zenon DEF TransferToAccount, TransferToWallet
<1>2. available' \in Nat /\ account' \in Nat /\ available' + account' = available + account
  BY <1>t DEF TransferToAccount, TransferToWallet
<1>3. \E s \in {"COMPLETED", "FAILED"} : transfer' = [transfer EXCEPT ![t].status = s]
  BY DEF TransferToAccount, TransferToWallet
<1>4. transfer' \in [Transfers -> TransferRow]
  BY <1>t, <1>3, Zenon DEF TransferRow
<1>5. RowsTyped' /\ MoneyTyped' /\ CreditedOnce'
  BY <1>1, <1>2, <1>4 DEF IInv, RowsTyped, MoneyTyped, CreditedOnce, depositVars
<1>6. Price * purchased \in Int
  BY <1>t
<1>7. Holdings' = Holdings
  BY <1>t, <1>1, <1>2, <1>6 DEF Holdings
<1>. QED BY <1>1, <1>5, <1>7 DEF IInv, OneCredit

LEMMA NextStep ==
    ASSUME IInv, [Next]_vars
    PROVE  IInv' /\ OneCredit
<1>1. ASSUME NEW d \in Deposits, RowOnly(d) PROVE IInv' /\ OneCredit
  BY <1>1, RowOnlyStep
<1>2. ASSUME NEW d \in Deposits, NEW s \in Statuses, Callback(d, s)
      PROVE  IInv' /\ OneCredit
  BY <1>2, CallbackStep
<1>3. CASE PurchaseFromWallet
  <2>1. RowsTyped' /\ CreditedOnce'
    BY <1>3 DEF IInv, RowsTyped, PurchaseFromWallet, CreditedOnce, depositVars
  <2>2. /\ available' = available - Price /\ purchased' = purchased + 1 /\ account' = account
        /\ available >= Price /\ UNCHANGED <<pending, credits>>
    BY <1>3 DEF PurchaseFromWallet
  <2>3. Price \in Nat /\ available \in Nat /\ account \in Nat /\ purchased \in Nat
    BY WalletAssumption DEF IInv, MoneyTyped, WalletAssumption
  <2>4. MoneyTyped'
    BY <2>2, <2>3 DEF IInv, MoneyTyped
  <2>5. Price * (purchased + 1) = Price * purchased + Price /\ Price * purchased \in Int
    BY <2>3
  <2>6. Holdings' = Holdings
    BY <2>2, <2>3, <2>5 DEF Holdings
  <2>. QED BY <2>1, <2>2, <2>4, <2>6 DEF IInv, OneCredit
<1>4. CASE EnrollmentFails
  BY <1>4 DEF IInv, RowsTyped, MoneyTyped, EnrollmentFails, CreditedOnce, depositVars,
              OneCredit, Holdings
<1>5. ASSUME NEW t \in Transfers, NEW toAccount \in BOOLEAN, StartTransfer(t, toAccount)
      PROVE  IInv' /\ OneCredit
  <2>1. UNCHANGED <<depositVars, available, pending, credits, enrolled, purchased, account>>
    BY <1>5 DEF StartTransfer
  <2>2. transfer' \in [Transfers -> TransferRow]
    <3>1. transfer \in [Transfers -> TransferRow]
      BY DEF IInv, RowsTyped
    <3>2. [status |-> "PENDING", toAccount |-> toAccount] \in TransferRow
      BY DEF TransferRow
    <3>3. transfer' = [transfer EXCEPT ![t] = [status |-> "PENDING", toAccount |-> toAccount]]
      BY <1>5 DEF StartTransfer
    <3>. QED BY <3>1, <3>2, <3>3
  <2>. QED BY <2>1, <2>2 DEF IInv, RowsTyped, MoneyTyped, CreditedOnce, depositVars,
                             OneCredit, Holdings
<1>6. ASSUME NEW t \in Transfers, NEW positions \in BOOLEAN,
             TransferToAccount(t) \/ TransferToWallet(t, positions)
      PROVE  IInv' /\ OneCredit
  BY <1>6, TransferStep
<1>7. CASE UNCHANGED vars
  BY <1>7 DEF vars, depositVars, IInv, RowsTyped, MoneyTyped, CreditedOnce, OneCredit, Holdings
<1>8. CASE \E t \in Transfers : TransferToAccount(t)
  BY <1>6, <1>8
<1>. QED BY <1>1, <1>2, <1>3, <1>4, <1>5, <1>6, <1>7, <1>8 DEF Next, RowOnly

THEOREM Invariant == Spec => []IInv
  BY InvInit, NextStep, PTL DEF Spec

-----------------------------------------------------------------------------
(* A deposit whose row says so has been credited, once; no other one has:   *)
(* whatever the order of the creating view, the callbacks and the polls.    *)
THEOREM EachDepositOnce == Spec => []CreditedOnce
  BY Invariant, PTL DEF IInv

(* Every column keeps to its type; neither the wallet nor the account is    *)
(* ever overdrawn.                                                          *)
THEOREM TypeCorrect == Spec => []TypeOK
<1>1. IInv => TypeOK
  BY TypeOKSplit DEF IInv
<1>. QED BY <1>1, Invariant, PTL

(* The only step that adds to what the client has is the one that credits a *)
(* deposit, by its amount; purchases and transfers only move it around.     *)
THEOREM MoneyComesFromDeposits == Spec => [][OneCredit]_vars
  BY Invariant, NextStep, PTL DEF Spec

-----------------------------------------------------------------------------
(* Hence the whole account: what one step adds is what the sum of credits   *)
(* grows by.                                                                *)
CreditOf(c) == [d \in TopUps |-> Amount[d] * c[d]]

LEMMA CreditedTyped ==
    ASSUME MoneyTyped
    PROVE  /\ IsFiniteSet(TopUps)
           /\ \A d \in TopUps : CreditOf(credits)[d] \in Int
<1>1. IsFiniteSet(TopUps)
  BY WalletAssumption, FS_Subset DEF WalletAssumption, Deposits
<1>2. ASSUME NEW d \in TopUps PROVE Amount[d] * credits[d] \in Int
  BY WalletAssumption DEF WalletAssumption, MoneyTyped, Deposits
<1>. QED BY <1>1, <1>2 DEF CreditOf

LEMMA ConservedInit == Init => MoneyConserved
<1>. SUFFICES ASSUME Init PROVE MoneyConserved
  OBVIOUS
<1>1. \A d \in TopUps : CreditOf(credits)[d] = 0
  <2>1. ASSUME NEW d \in TopUps PROVE Amount[d] * credits[d] = 0
    BY WalletAssumption DEF WalletAssumption, Init, Deposits
  <2>. QED BY <2>1 DEF CreditOf
<1>2. IsFiniteSet(TopUps)
  BY WalletAssumption, FS_Subset DEF WalletAssumption, Deposits
<1>3. SumFunctionOnSet(CreditOf(credits), TopUps) = 0
  BY <1>1, <1>2, SumZero
<1>4. Credited = 0
  BY <1>3, Zenon DEF Credited, CreditOf
<1>5. Price * 0 = 0
  BY WalletAssumption DEF WalletAssumption
<1>. QED BY <1>4, <1>5, WalletAssumption DEF MoneyConserved, Init, WalletAssumption

LEMMA ConservedStep ==
    ASSUME IInv, IInv', OneCredit, MoneyConserved
    PROVE  MoneyConserved'
<1>1. /\ IsFiniteSet(TopUps)
      /\ \A d \in TopUps : CreditOf(credits)[d] \in Int
  BY CreditedTyped DEF IInv
<1>2. /\ Credited = SumFunctionOnSet(CreditOf(credits), TopUps)
      /\ Credited' = SumFunctionOnSet(CreditOf(credits'), TopUps)
  BY Zenon DEF Credited, CreditOf
<1>3. Credited \in Int
  BY <1>1, <1>2, SumType
<1>4. Holdings = Funded + Credited /\ (MoneyConserved' <=> Holdings' = Funded + Credited')
  BY DEF MoneyConserved, Holdings
<1>5. CASE Holdings' = Holdings /\ \A e \in TopUps : credits'[e] = credits[e]
  <2>1. \A d \in TopUps : CreditOf(credits)[d] = CreditOf(credits')[d]
    BY <1>5 DEF CreditOf
  <2>2. Credited' = Credited
    BY <1>1, <1>2, <2>1, SumAgree
  <2>. QED BY <1>4, <1>5, <2>2
<1>6. ASSUME NEW d \in TopUps, credits[d] = 0, credits'[d] = 1,
             \A e \in TopUps \ {d} : credits'[e] = credits[e],
             Holdings' = Holdings + Amount[d]
      PROVE  MoneyConserved'
  <2>1. Amount[d] \in Nat /\ Funded \in Nat
    BY WalletAssumption DEF WalletAssumption, Deposits
  <2>2. CreditOf(credits)[d] = 0 /\ CreditOf(credits')[d] = Amount[d]
    BY <1>6, <2>1 DEF CreditOf
  <2>3. \A e \in TopUps \ {d} : CreditOf(credits')[e] = CreditOf(credits)[e]
    BY <1>6 DEF CreditOf
  <2>4. Credited' = Credited + (Amount[d] - 0)
    BY <1>1, <1>2, <2>1, <2>2, <2>3, SumPoint
  <2>. QED BY <1>3, <1>4, <1>6, <2>1, <2>4
<1>. QED BY <1>5, <1>6 DEF OneCredit

(* What was deposited is in the wallet, in the account, or was spent.       *)
THEOREM MoneyIsConserved == Spec => []MoneyConserved
<1>1. IInv /\ MoneyConserved /\ [Next]_vars => MoneyConserved'
  BY NextStep, ConservedStep
<1>. QED BY <1>1, ConservedInit, Invariant, PTL DEF Spec
=============================================================================

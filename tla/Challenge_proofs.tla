-------------------------- MODULE Challenge_proofs --------------------------
(***************************************************************************)
(* Theorems about Challenge and FundedPayout, for any number of payout     *)
(* requests and concurrent views, and any limits, targets and split.       *)
(***************************************************************************)
EXTENDS Challenge, SumLemmas, TLAPS

PayoutRow == [status : {"none"} \cup ACTIVE_FPR \cup TERMINAL_FPR,
              kind : {"SIM", "INTERNAL"}, profit : Nat, cut : Nat]
SeenRow == [profit : Nat, kind : {"SIM", "INTERNAL"}]

(* The typing of the payouts, without the balances.                         *)
PayoutsTyped ==
    /\ fpr \in [Requests -> PayoutRow]
    /\ wr \in [Requests -> {"none", "APPROVED", "PROCESSING"} \cup TERMINAL_WR]
    /\ seen \in [Views -> SeenRow]
    /\ submitting \in [Requests -> {"idle", "debited", "posted", "saved"}]
    /\ provider \in [Requests -> {"none", "accepted", "COMPLETED", "FAILED"}]
    /\ credits \in [Requests -> Nat]

BalancesTyped == balance \in Nat /\ initial \in Nat

(* Where a payout may be: the withdrawal, the thread of the operator and    *)
(* the provider, each as far as the ones before allow.                      *)
Placed(r) ==
    /\ credits[r] \in {0, 1}
    /\ credits[r] = 1 => fpr[r].status = "completed" /\ wr[r] = "none"
    /\ fpr[r].status \in {"none", "pending"} => wr[r] = "none" /\ credits[r] = 0
    /\ wr[r] = "none" => provider[r] = "none" /\ submitting[r] = "idle"
    /\ submitting[r] = "debited" => provider[r] = "none" /\ wr[r] = "APPROVED"
    /\ wr[r] = "FAILED" => provider[r] \in {"none", "FAILED"}

PayoutsPlaced == \A r \in Requests : Placed(r)

(* The accounts exist from the activation on, the current one is that of    *)
(* the enrollment's stage, and an evaluation is under way only in a phase.  *)
AccountsPlaced ==
    /\ account["PHASE_1"] = "none" =>
           /\ \A s \in Stages : account[s] = "none"
           /\ evaluating = NoReading
           /\ enrollment \in {"PHASE_1", "FAILED"}
    /\ evaluating # NoReading => enrollment \in Phases
    /\ OnlyTheCurrentAccountTrades

AccountsTyped ==
    /\ enrollment \in Stages \cup {"FAILED"}
    /\ account \in [Stages -> {"none", "Activo", "Suspendido", "Funded"}]
    /\ peak \in Nat /\ gains \in Nat
    /\ today \in Int /\ net \in Int
    /\ days \in 0 .. MinTradingDays
    /\ tradedToday \in BOOLEAN
    /\ age \in 0 .. MaxDurationDays + 1
    /\ evaluating \in [balance : Nat, peak : Nat] \cup {NoReading}

IInv == /\ PayoutsTyped /\ BalancesTyped /\ PayoutsPlaced
        /\ AccountsTyped /\ AccountsPlaced

LEMMA TypeOKSplit == PayoutsTyped /\ BalancesTyped /\ AccountsTyped => TypeOK
  BY Zenon DEF TypeOK, PayoutTypeOK, PayoutsTyped, BalancesTyped, AccountsTyped, PayoutRow, SeenRow

LEMMA InvInit == Init => IInv
<1>. SUFFICES ASSUME Init PROVE IInv
  OBVIOUS
<1>1. PayoutsTyped
  BY DEF Init, PayoutInit, PayoutsTyped, PayoutRow, SeenRow, NoPayout, NothingSeen,
         TERMINAL_WR, TERMINAL_FPR, ACTIVE_FPR
<1>2. BalancesTyped
  BY DEF Init, BalancesTyped
<1>3. PayoutsPlaced
  BY DEF Init, PayoutInit, PayoutsPlaced, Placed, NoPayout
<1>4. AccountsTyped
  <2>1. tradedToday \in BOOLEAN
    BY Zenon DEF Init
  <2>2. days \in 0 .. MinTradingDays /\ age \in 0 .. MaxDurationDays + 1
    BY ChallengeAssumption DEF Init, ChallengeAssumption
  <2>. QED BY <2>1, <2>2 DEF Init, AccountsTyped, Stages, Phases
<1>5. AccountsPlaced
  BY DEF Init, AccountsPlaced, OnlyTheCurrentAccountTrades, Stages, Phases
<1>. QED BY <1>1, <1>2, <1>3, <1>4, <1>5 DEF IInv

-----------------------------------------------------------------------------
(* Arithmetic of the money.                                                 *)

LEMMA QuantizeNat ==
    ASSUME NEW num \in Nat, NEW den \in Nat \ {0}
    PROVE  Quantize(num, den) \in Nat
<1>1. num \div den \in Nat
  OBVIOUS
<1>. QED BY <1>1 DEF Quantize

LEMMA CutNat == ASSUME NEW profit \in Nat PROVE TraderCut(profit) \in Nat
<1>1. profit * SplitPct \in Nat
  BY PayoutAssumption DEF PayoutAssumption
<1>. QED BY <1>1, QuantizeNat DEF TraderCut

-----------------------------------------------------------------------------
(* The payouts, action by action: typing and place of every request, and    *)
(* the balances stay natural numbers.                                       *)

PayoutsKept == PayoutsTyped' /\ BalancesTyped' /\ PayoutsPlaced'

LEMMA ReadStep ==
    ASSUME IInv, NEW v \in Views, NEW kind \in FundedTypes, ReadCycle(v, kind)
    PROVE  PayoutsKept
<1>1. CycleProfit \in Nat /\ kind \in {"SIM", "INTERNAL"}
  BY PayoutAssumption DEF CycleProfit, PayoutAssumption, IInv, BalancesTyped
<1>2. seen' \in [Views -> SeenRow]
  BY <1>1 DEF IInv, PayoutsTyped, ReadCycle, SeenRow
<1>. QED BY <1>2 DEF IInv, PayoutsTyped, BalancesTyped, PayoutsPlaced, Placed, ReadCycle, PayoutsKept

LEMMA CreateStep ==
    ASSUME IInv, NEW v \in Views, NEW r \in Requests, CreatePayout(v, r)
    PROVE  PayoutsKept
<1>1. seen' \in [Views -> SeenRow]
  BY DEF IInv, PayoutsTyped, CreatePayout, SeenRow, NothingSeen
<1>2. UNCHANGED <<balance, initial, wr, submitting, provider, credits>>
  BY DEF CreatePayout
<1>3. CASE UNCHANGED fpr
  BY <1>1, <1>2, <1>3 DEF IInv, PayoutsTyped, BalancesTyped, PayoutsPlaced, Placed, PayoutsKept
<1>4. CASE /\ fpr[r].status = "none"
           /\ fpr' = [fpr EXCEPT ![r] = [status |-> "pending", kind |-> seen[v].kind,
                                        profit |-> seen[v].profit,
                                        cut |-> TraderCut(seen[v].profit)]]
  <2>1. seen[v].profit \in Nat /\ seen[v].kind \in {"SIM", "INTERNAL"}
    BY DEF IInv, PayoutsTyped, SeenRow
  <2>2. TraderCut(seen[v].profit) \in Nat
    BY <2>1, CutNat
  <2>3. fpr' \in [Requests -> PayoutRow] /\ fpr'[r].status = "pending"
    BY <1>4, <2>1, <2>2 DEF IInv, PayoutsTyped, PayoutRow, ACTIVE_FPR
  <2>4. \A q \in Requests \ {r} : fpr'[q] = fpr[q]
    BY <1>4 DEF IInv, PayoutsTyped
  <2>5. PayoutsPlaced'
    BY <1>2, <1>4, <2>3, <2>4 DEF IInv, PayoutsPlaced, Placed
  <2>. QED BY <1>1, <1>2, <2>3, <2>5 DEF IInv, PayoutsTyped, BalancesTyped, PayoutsKept
<1>. QED BY <1>3, <1>4 DEF CreatePayout

(* A change of status keeps the rest of the row.                            *)
LEMMA StatusRow ==
    ASSUME PayoutsTyped, NEW r \in Requests, NEW status \in ACTIVE_FPR \cup TERMINAL_FPR,
           SetStatus(r, status)
    PROVE  /\ fpr' \in [Requests -> PayoutRow]
           /\ fpr'[r].status = status
           /\ \A q \in Requests \ {r} : fpr'[q] = fpr[q]
  BY DEF PayoutsTyped, SetStatus, PayoutRow

LEMMA CutTyped == ASSUME PayoutsTyped, NEW r \in Requests PROVE fpr[r].cut \in Nat
  BY DEF PayoutsTyped, PayoutRow

LEMMA SimStep ==
    ASSUME IInv, NEW r \in Requests, ApproveSim(r)
    PROVE  PayoutsKept
<1>1. /\ fpr[r].status = "pending" /\ balance >= fpr[r].cut
      /\ balance' = balance - fpr[r].cut /\ initial' = balance'
      /\ credits' = [credits EXCEPT ![r] = @ + 1]
      /\ SetStatus(r, "completed")
      /\ UNCHANGED <<wr, seen, submitting, provider>>
  BY DEF ApproveSim, MayApprove
<1>2. BalancesTyped'
  BY <1>1, CutTyped DEF IInv, BalancesTyped
<1>3. /\ fpr' \in [Requests -> PayoutRow] /\ fpr'[r].status = "completed"
      /\ \A q \in Requests \ {r} : fpr'[q] = fpr[q]
  BY <1>1, StatusRow DEF IInv, TERMINAL_FPR
<1>4. credits' \in [Requests -> Nat] /\ credits'[r] = credits[r] + 1
      /\ \A q \in Requests \ {r} : credits'[q] = credits[q]
  BY <1>1 DEF IInv, PayoutsTyped
<1>5. PayoutsTyped'
  BY <1>1, <1>3, <1>4 DEF IInv, PayoutsTyped
<1>6. PayoutsPlaced'
  BY <1>1, <1>3, <1>4 DEF IInv, PayoutsPlaced, Placed
<1>. QED BY <1>2, <1>5, <1>6 DEF PayoutsKept

LEMMA InternalStep ==
    ASSUME IInv, NEW r \in Requests, ApproveInternal(r)
    PROVE  PayoutsKept
<1>1. /\ fpr[r].status = "pending" /\ balance >= fpr[r].cut
      /\ balance' = balance - fpr[r].cut
      /\ wr' = [wr EXCEPT ![r] = "APPROVED"]
      /\ SetStatus(r, "approved")
      /\ submitting' = [submitting EXCEPT ![r] = "debited"]
      /\ UNCHANGED <<initial, seen, provider, credits>>
  BY DEF ApproveInternal, MayApprove
<1>2. BalancesTyped'
  BY <1>1, CutTyped DEF IInv, BalancesTyped
<1>3. /\ fpr' \in [Requests -> PayoutRow] /\ fpr'[r].status = "approved"
      /\ \A q \in Requests \ {r} : fpr'[q] = fpr[q]
  BY <1>1, StatusRow DEF IInv, ACTIVE_FPR
<1>4. PayoutsTyped'
  BY <1>1, <1>3 DEF IInv, PayoutsTyped
<1>5. PayoutsPlaced'
  BY <1>1, <1>3 DEF IInv, PayoutsTyped, PayoutsPlaced, Placed
<1>. QED BY <1>2, <1>4, <1>5 DEF PayoutsKept

LEMMA RejectedStep ==
    ASSUME IInv, NEW r \in Requests, SubmitRejected(r)
    PROVE  PayoutsKept
<1>1. /\ submitting[r] = "debited" /\ balance' = balance + fpr[r].cut
      /\ wr' = [wr EXCEPT ![r] = "FAILED"]
      /\ SetStatus(r, "failed")
      /\ submitting' = [submitting EXCEPT ![r] = "idle"]
      /\ UNCHANGED <<initial, seen, provider, credits>>
  BY DEF SubmitRejected, ReverseAndFail
<1>2. BalancesTyped'
  BY <1>1, CutTyped DEF IInv, BalancesTyped
<1>3. /\ fpr' \in [Requests -> PayoutRow] /\ fpr'[r].status = "failed"
      /\ \A q \in Requests \ {r} : fpr'[q] = fpr[q]
  BY <1>1, StatusRow DEF IInv, TERMINAL_FPR
<1>4. PayoutsTyped'
  BY <1>1, <1>3 DEF IInv, PayoutsTyped, TERMINAL_WR
<1>5. PayoutsPlaced'
  BY <1>1, <1>3 DEF IInv, PayoutsTyped, PayoutsPlaced, Placed
<1>. QED BY <1>2, <1>4, <1>5 DEF PayoutsKept

(* The thread and the provider move on without touching the money.          *)
LEMMA SubmitStep ==
    ASSUME IInv, NEW r \in Requests,
           \/ PostUnanswered(r) \/ PostAccepted(r) \/ SaveWithdrawal(r)
           \/ SubmitStops(r) \/ ProviderSettles(r)
    PROVE  PayoutsKept
<1>1. UNCHANGED <<balance, initial, fpr, seen, credits>>
  BY DEF PostUnanswered, PostAccepted, SaveWithdrawal, SubmitStops, ProviderSettles
<1>2. PayoutsTyped'
  BY <1>1 DEF IInv, PayoutsTyped, TERMINAL_WR, PostUnanswered, PostAccepted, SaveWithdrawal,
              SubmitStops, ProviderSettles
<1>3. PayoutsPlaced'
  BY <1>1 DEF IInv, PayoutsTyped, PayoutsPlaced, Placed, TERMINAL_WR, PostUnanswered,
              PostAccepted, SaveWithdrawal, SubmitStops, ProviderSettles
<1>. QED BY <1>1, <1>2, <1>3 DEF IInv, BalancesTyped, PayoutsKept

LEMMA SaveRequestStep ==
    ASSUME IInv, NEW r \in Requests, SaveRequest(r)
    PROVE  PayoutsKept
<1>1. /\ submitting[r] = "saved" /\ submitting' = [submitting EXCEPT ![r] = "idle"]
      /\ UNCHANGED <<balance, initial, wr, seen, provider, credits>>
  BY DEF SaveRequest
<1>2. CASE UNCHANGED fpr
  BY <1>1, <1>2 DEF IInv, PayoutsTyped, BalancesTyped, PayoutsPlaced, Placed, PayoutsKept
<1>3. CASE SetStatus(r, "processing")
  <2>1. /\ fpr' \in [Requests -> PayoutRow] /\ fpr'[r].status = "processing"
        /\ \A q \in Requests \ {r} : fpr'[q] = fpr[q]
    BY <1>3, StatusRow DEF IInv, ACTIVE_FPR
  <2>2. PayoutsPlaced'
    BY <1>1, <2>1 DEF IInv, PayoutsTyped, PayoutsPlaced, Placed
  <2>. QED BY <1>1, <2>1, <2>2 DEF IInv, PayoutsTyped, BalancesTyped, PayoutsKept
<1>. QED BY <1>2, <1>3 DEF SaveRequest

LEMMA WebhookStep ==
    ASSUME IInv, NEW r \in Requests, Webhook(r)
    PROVE  PayoutsKept
<1>1. /\ provider[r] \in TERMINAL_WR /\ wr[r] = "PROCESSING"
      /\ SettleRequest(r, provider[r])
      /\ wr' = [wr EXCEPT ![r] = provider[r]]
      /\ UNCHANGED <<seen, submitting, provider, credits>>
  BY DEF Webhook
<1>2. BalancesTyped'
  BY <1>1, CutTyped DEF IInv, BalancesTyped, SettleRequest
<1>3. /\ fpr' \in [Requests -> PayoutRow]
      /\ fpr'[r] = fpr[r] \/ fpr'[r].status \in TERMINAL_FPR
      /\ \A q \in Requests \ {r} : fpr'[q] = fpr[q]
  <2>1. CASE UNCHANGED fpr
    BY <2>1 DEF IInv, PayoutsTyped
  <2>2. CASE \E status \in TERMINAL_FPR : SetStatus(r, status)
    BY <2>2, StatusRow DEF IInv
  <2>. QED BY <1>1, <2>1, <2>2 DEF SettleRequest, TERMINAL_FPR
<1>4. PayoutsTyped'
  BY <1>1, <1>3 DEF IInv, PayoutsTyped
<1>5. PayoutsPlaced'
  BY <1>1, <1>3 DEF IInv, PayoutsTyped, PayoutsPlaced, Placed, TERMINAL_FPR, TERMINAL_WR
<1>. QED BY <1>2, <1>4, <1>5 DEF PayoutsKept

LEMMA OperatorStep == ASSUME IInv, PayoutByOperator PROVE PayoutsKept
  BY SimStep, InternalStep, RejectedStep, SubmitStep, SaveRequestStep, WebhookStep
     DEF PayoutByOperator

-----------------------------------------------------------------------------
(* The phases.                                                               *)

LEMMA PayoutsSame == ASSUME IInv, UNCHANGED payoutVars, BalancesTyped' PROVE PayoutsKept
  BY DEF IInv, payoutVars, PayoutsTyped, PayoutsPlaced, Placed, PayoutsKept

(* The enrollment keeps its place or goes one step on.                      *)
Progress ==
    \/ enrollment' = enrollment
    \/ enrollment \in Phases /\ enrollment' = "FAILED"
    \/ enrollment \in Phases /\ Rank(enrollment') = Rank(enrollment) + 1

AccountsKept ==
    /\ AccountsTyped' /\ AccountsPlaced'
    /\ account["PHASE_1"] # "none" => Progress

LEMMA OpenTyped ==
    ASSUME NEW accounts \in [Stages -> {"none", "Activo", "Suspendido", "Funded"}],
           NEW stage \in Stages, OpenAccount(accounts, stage)
    PROVE  /\ account' \in [Stages -> {"none", "Activo", "Suspendido", "Funded"}]
           /\ account'[stage] = "Activo"
           /\ \A s \in Stages \ {stage} : account'[s] = accounts[s]
           /\ BalancesTyped' /\ peak' \in Nat /\ gains' \in Nat
           /\ today' \in Int /\ net' \in Int
           /\ days' \in 0 .. MinTradingDays /\ age' \in 0 .. MaxDurationDays + 1
<1>1. Size \in Nat /\ MinTradingDays \in Nat /\ MaxDurationDays \in Nat
  BY ChallengeAssumption DEF ChallengeAssumption
<1>. QED BY <1>1 DEF OpenAccount, BalancesTyped

LEMMA OpenFlag ==
    ASSUME NEW accounts, NEW stage, OpenAccount(accounts, stage)
    PROVE  tradedToday' \in BOOLEAN
  BY Zenon DEF OpenAccount

LEMMA ActivateStep == ASSUME IInv, Activate PROVE PayoutsKept /\ AccountsKept
<1>1. /\ account["PHASE_1"] = "none" /\ enrollment' = "PHASE_1"
      /\ OpenAccount(account, "PHASE_1") /\ UNCHANGED <<evaluating, payoutVars>>
      /\ "PHASE_1" \in Stages
  BY DEF Activate, Stages, Phases
<1>2. account \in [Stages -> {"none", "Activo", "Suspendido", "Funded"}]
  BY DEF IInv, AccountsTyped
<1>3. AccountsTyped'
  BY <1>1, <1>2, OpenTyped, OpenFlag DEF IInv, AccountsTyped
<1>4. AccountsPlaced'
  BY <1>1, <1>2, OpenTyped DEF IInv, AccountsPlaced, OnlyTheCurrentAccountTrades, Phases
<1>5. PayoutsKept
  BY <1>1, <1>2, OpenTyped, PayoutsSame
<1>. QED BY <1>1, <1>3, <1>4, <1>5 DEF AccountsKept

LEMMA TradeStep == ASSUME IInv, NEW pnl \in Results, CloseTrade(pnl) PROVE PayoutsKept /\ AccountsKept
<1>1. /\ enrollment \in Stages /\ account[enrollment] # "none"
      /\ balance + pnl \in MinBalance .. MaxBalance
      /\ balance' = balance + pnl
      /\ peak' = Larger(peak, balance') /\ today' = today + pnl
      /\ days' = IF tradedToday \/ days = MinTradingDays THEN days ELSE days + 1
      /\ net' = net + pnl /\ gains' = gains + Larger(pnl, 0)
      /\ account' = account \/ account' = [account EXCEPT ![enrollment] = "Suspendido"]
      /\ UNCHANGED <<enrollment, initial, age, evaluating, payoutVars>>
  BY DEF CloseTrade
<1>2. pnl \in Int /\ MinBalance \in Nat /\ MaxBalance \in Nat /\ MinTradingDays \in Nat
  BY ChallengeAssumption DEF ChallengeAssumption
<1>3. /\ peak \in Nat /\ gains \in Nat /\ today \in Int /\ net \in Int
      /\ days \in 0 .. MinTradingDays
  BY DEF IInv, AccountsTyped
<1>4. balance' \in Nat /\ BalancesTyped'
  BY <1>1, <1>2 DEF IInv, BalancesTyped
<1>5. peak' \in Nat /\ gains' \in Nat /\ today' \in Int /\ net' \in Int
  BY <1>1, <1>2, <1>3, <1>4 DEF Larger
<1>6. days' \in 0 .. MinTradingDays
  BY <1>1, <1>2, <1>3
<1>7. tradedToday' \in BOOLEAN
  BY Zenon DEF CloseTrade
<1>8. /\ account' \in [Stages -> {"none", "Activo", "Suspendido", "Funded"}]
      /\ \A s \in Stages : \/ account'[s] = account[s]
                           \/ account'[s] = "Suspendido" /\ account[s] # "none"
  <2>1. account \in [Stages -> {"none", "Activo", "Suspendido", "Funded"}]
    BY DEF IInv, AccountsTyped
  <2>2. CASE account' = account
    BY <2>1, <2>2
  <2>3. CASE account' = [account EXCEPT ![enrollment] = "Suspendido"]
    <3>1. enrollment \in Stages /\ account[enrollment] # "none"
      BY <1>1
    <3>. QED BY <2>1, <2>3, <3>1
  <2>4. account' = account \/ account' = [account EXCEPT ![enrollment] = "Suspendido"]
    BY <1>1
  <2>. QED BY <2>2, <2>3, <2>4
<1>9. AccountsTyped'
  BY <1>1, <1>5, <1>6, <1>7, <1>8 DEF IInv, AccountsTyped
<1>10. AccountsPlaced'
  BY <1>1, <1>8 DEF IInv, AccountsPlaced, OnlyTheCurrentAccountTrades, Stages, Phases
<1>. QED BY <1>1, <1>4, <1>9, <1>10, PayoutsSame DEF AccountsKept, Progress

LEMMA DayStep == ASSUME IInv, NewDay PROVE PayoutsKept /\ AccountsKept
<1>1. /\ today' = 0 /\ age' = IF age > MaxDurationDays THEN age ELSE age + 1
      /\ UNCHANGED <<enrollment, account, balance, initial, peak, days, evaluating,
                     net, gains, payoutVars>>
  BY DEF NewDay
<1>2. MaxDurationDays \in Nat /\ age \in 0 .. MaxDurationDays + 1
  BY ChallengeAssumption DEF ChallengeAssumption, IInv, AccountsTyped
<1>3. age' \in 0 .. MaxDurationDays + 1 /\ today' \in Int
  BY <1>1, <1>2
<1>4. tradedToday' \in BOOLEAN
  BY Zenon DEF NewDay
<1>5. AccountsTyped'
  BY <1>1, <1>3, <1>4 DEF IInv, AccountsTyped
<1>6. AccountsPlaced' /\ BalancesTyped'
  BY <1>1 DEF IInv, AccountsPlaced, BalancesTyped, OnlyTheCurrentAccountTrades
<1>. QED BY <1>1, <1>5, <1>6, PayoutsSame DEF AccountsKept, Progress

LEMMA ReadingStep == ASSUME IInv, EvaluateRead PROVE PayoutsKept /\ AccountsKept
<1>1. /\ enrollment \in Phases /\ account[enrollment] # "none"
      /\ evaluating' = [balance |-> balance, peak |-> peak]
      /\ SameAccount /\ UNCHANGED <<enrollment, payoutVars>>
  BY DEF EvaluateRead
<1>2. evaluating' \in [balance : Nat, peak : Nat]
  BY <1>1 DEF IInv, AccountsTyped, BalancesTyped
<1>3. AccountsTyped'
  BY <1>1, <1>2 DEF IInv, AccountsTyped, SameAccount
<1>4. AccountsPlaced' /\ BalancesTyped'
  BY <1>1 DEF IInv, AccountsPlaced, BalancesTyped, OnlyTheCurrentAccountTrades, SameAccount,
              Stages, Phases
<1>. QED BY <1>1, <1>3, <1>4, PayoutsSame DEF AccountsKept, Progress

LEMMA DecideStep == ASSUME IInv, EvaluateDecide PROVE PayoutsKept /\ AccountsKept
<1>1. /\ enrollment \in Phases /\ account["PHASE_1"] # "none"
      /\ evaluating' = NoReading /\ UNCHANGED payoutVars
  BY DEF EvaluateDecide, IInv, AccountsPlaced
<1>t. account \in [Stages -> {"none", "Activo", "Suspendido", "Funded"}]
  BY DEF IInv, AccountsTyped
<1>2. ASSUME NEW stage \in Stages, Advance(stage),
             \/ enrollment = "PHASE_1" /\ stage = "PHASE_2"
             \/ enrollment = "PHASE_2" /\ stage = "FUNDED"
      PROVE  PayoutsKept /\ AccountsKept
  <2>1. [account EXCEPT ![enrollment] = "Funded"]
            \in [Stages -> {"none", "Activo", "Suspendido", "Funded"}]
    BY <1>t
  <2>2. /\ enrollment' = stage
        /\ OpenAccount([account EXCEPT ![enrollment] = "Funded"], stage)
    BY <1>2 DEF Advance
  <2>3. AccountsTyped'
    BY <1>1, <2>1, <2>2, OpenTyped, OpenFlag DEF AccountsTyped
  <2>4. \A s \in Stages \ {stage} :
           account'[s] = IF s = enrollment THEN "Funded" ELSE account[s]
    BY <1>t, <2>1, <2>2, OpenTyped
  <2>5. account'["PHASE_1"] # "none"
    BY <1>1, <1>2, <2>4 DEF Stages, Phases
  <2>6. AccountsPlaced'
    BY <1>1, <2>2, <2>4, <2>5 DEF IInv, AccountsPlaced, OnlyTheCurrentAccountTrades
  <2>7. PayoutsKept
    BY <1>1, <2>1, <2>2, OpenTyped, PayoutsSame
  <2>8. Rank(enrollment') = Rank(enrollment) + 1
    BY <1>2, <2>2 DEF Rank
  <2>. QED BY <1>1, <2>3, <2>6, <2>7, <2>8 DEF AccountsKept, Progress
<1>3. CASE MarkFailed
  <2>1. /\ account' = [account EXCEPT ![enrollment] = "Suspendido"]
        /\ enrollment' = "FAILED"
        /\ UNCHANGED <<balance, initial, peak, today, days, tradedToday, age, net, gains>>
    BY <1>3 DEF MarkFailed
  <2>2. AccountsTyped'
    BY <1>1, <1>t, <2>1 DEF IInv, AccountsTyped
  <2>3. AccountsPlaced'
    BY <1>1, <1>t, <2>1 DEF IInv, AccountsPlaced, OnlyTheCurrentAccountTrades, Stages, Phases
  <2>4. PayoutsKept
    BY <1>1, <2>1, PayoutsSame DEF IInv, BalancesTyped
  <2>. QED BY <1>1, <2>1, <2>2, <2>3, <2>4 DEF AccountsKept, Progress
<1>4. CASE SameAccount /\ UNCHANGED enrollment
  <2>1. AccountsTyped' /\ BalancesTyped'
    BY <1>1, <1>4 DEF IInv, AccountsTyped, BalancesTyped, SameAccount
  <2>2. AccountsPlaced'
    BY <1>1, <1>4 DEF IInv, AccountsPlaced, OnlyTheCurrentAccountTrades, SameAccount
  <2>. QED BY <1>1, <1>4, <2>1, <2>2, PayoutsSame DEF AccountsKept, Progress
<1>5. CASE Advance(IF enrollment = "PHASE_1" THEN "PHASE_2" ELSE "FUNDED")
  BY <1>1, <1>2, <1>5 DEF Stages, Phases
<1>. QED BY <1>3, <1>4, <1>5 DEF EvaluateDecide

LEMMA UnactivatedStep == ASSUME IInv, EvaluateUnactivated PROVE PayoutsKept /\ AccountsKept
<1>1. /\ account["PHASE_1"] = "none" /\ enrollment' = "FAILED"
      /\ SameAccount /\ UNCHANGED <<evaluating, payoutVars>>
  BY DEF EvaluateUnactivated
<1>2. AccountsTyped' /\ BalancesTyped'
  BY <1>1 DEF IInv, AccountsTyped, BalancesTyped, SameAccount
<1>3. AccountsPlaced'
  BY <1>1 DEF IInv, AccountsPlaced, OnlyTheCurrentAccountTrades, SameAccount
<1>. QED BY <1>1, <1>2, <1>3, PayoutsSame DEF AccountsKept

(* Payouts leave the phases alone.                                          *)
LEMMA AccountsSame == ASSUME IInv, UNCHANGED challengeVars PROVE AccountsKept
  BY DEF IInv, challengeVars, AccountsTyped, AccountsPlaced, OnlyTheCurrentAccountTrades,
         AccountsKept, Progress

LEMMA NextStep == ASSUME IInv, [Next]_vars PROVE PayoutsKept /\ AccountsKept
<1>1. CASE RequestPayout
  BY <1>1, ReadStep, CreateStep, AccountsSame DEF RequestPayout
<1>2. CASE Payouts
  BY <1>2, OperatorStep, AccountsSame DEF Payouts
<1>3. CASE UNCHANGED vars
  BY <1>3, AccountsSame, PayoutsSame DEF vars, IInv, BalancesTyped
<1>. QED BY <1>1, <1>2, <1>3, ActivateStep, TradeStep, DayStep, ReadingStep, DecideStep,
            UnactivatedStep DEF Next

THEOREM Invariant == Spec => []IInv
<1>1. IInv /\ [Next]_vars => IInv'
  BY NextStep DEF IInv, PayoutsKept, AccountsKept
<1>. QED BY <1>1, InvInit, PTL DEF Spec

-----------------------------------------------------------------------------
(* Every column keeps to its type; no approval overdraws the account.       *)
THEOREM TypeCorrect == Spec => []TypeOK
<1>1. IInv => TypeOK
  BY TypeOKSplit DEF IInv
<1>. QED BY <1>1, Invariant, PTL

(* An account that takes orders is that of the stage the enrollment is in.  *)
THEOREM OneAccountTrades == Spec => []OnlyTheCurrentAccountTrades
<1>1. IInv => OnlyTheCurrentAccountTrades
  BY DEF IInv, AccountsPlaced
<1>. QED BY <1>1, Invariant, PTL

(* Whatever is evaluated or activated again, an enrollment with an account  *)
(* goes through its phases in order, and ends once.                         *)
THEOREM PhasesInOrder == Spec => PhasesOnlyAdvance
<1>1. IInv /\ [Next]_vars => [account["PHASE_1"] # "none" =>
          \/ enrollment' = enrollment
          \/ enrollment \in Phases /\ enrollment' = "FAILED"
          \/ enrollment \in Phases /\ Rank(enrollment') = Rank(enrollment) + 1]_vars
  BY NextStep DEF AccountsKept, Progress
<1>. QED BY <1>1, Invariant, PTL DEF Spec, PhasesOnlyAdvance

(* A payout the provider may have paid is never given back, and one that is *)
(* paid into the wallet is paid once.                                       *)
THEOREM NeverBoth == Spec => []PaidOrGivenBack
<1>1. IInv => PaidOrGivenBack
  BY DEF IInv, PayoutsPlaced, Placed, PaidOrGivenBack
<1>. QED BY <1>1, Invariant, PTL

-----------------------------------------------------------------------------
(* The books of the funded balance.                                         *)

(* A withdrawal that is not final belongs to a request that is not either,  *)
(* and requests exist only once the enrollment is funded.                   *)
PayoutsOpen ==
    /\ \A r \in Requests :
          /\ wr[r] \in {"APPROVED", "PROCESSING"} => fpr[r].status \in {"approved", "processing"}
          /\ submitting[r] = "posted" => wr[r] = "APPROVED"
    /\ enrollment # "FUNDED" => \A r \in Requests : fpr[r].status = "none"

Debited(r) == credits[r] = 1 \/ wr[r] \notin {"none", "FAILED"}

(* What Taken is in a state, and in the next one.                           *)
TakenKnown ==
    /\ Taken = [r \in Requests |-> IF Debited(r) THEN fpr[r].cut ELSE 0]
    /\ \A r \in Requests : Taken[r] \in Int

LEMMA TakenIs == IInv => TakenKnown
<1>. SUFFICES ASSUME IInv PROVE TakenKnown
  OBVIOUS
<1>1. ASSUME NEW r \in Requests
      PROVE  /\ fpr[r].cut * (credits[r] + IF wr[r] \in {"none", "FAILED"} THEN 0 ELSE 1)
                  = IF Debited(r) THEN fpr[r].cut ELSE 0
             /\ (IF Debited(r) THEN fpr[r].cut ELSE 0) \in Int
  <2>1. fpr[r].cut \in Nat /\ credits[r] \in {0, 1} /\ (credits[r] = 1 => wr[r] = "none")
    BY CutTyped DEF IInv, PayoutsPlaced, Placed
  <2>2. credits[r] + (IF wr[r] \in {"none", "FAILED"} THEN 0 ELSE 1) = IF Debited(r) THEN 1 ELSE 0
    BY <2>1 DEF Debited
  <2>3. fpr[r].cut * 1 = fpr[r].cut /\ fpr[r].cut * 0 = 0
    BY <2>1
  <2>4. CASE Debited(r)
    BY <2>1, <2>2, <2>3, <2>4
  <2>5. CASE ~Debited(r)
    BY <2>1, <2>2, <2>3, <2>5
  <2>. QED BY <2>4, <2>5
<1>2. Taken = [r \in Requests |-> IF Debited(r) THEN fpr[r].cut ELSE 0]
  BY <1>1 DEF Taken
<1>. QED BY <1>1, <1>2 DEF TakenKnown

LEMMA TakenNext == IInv' => TakenKnown'
  BY TakenIs, PTL

(* Before the funded stage nothing has been taken.                          *)
LEMMA NothingTaken ==
    ASSUME IInv, PayoutsOpen, enrollment # "FUNDED"
    PROVE  \A r \in Requests : Taken[r] = 0
<1>1. \A r \in Requests : ~Debited(r)
  BY DEF IInv, PayoutsOpen, PayoutsPlaced, Placed, Debited
<1>. QED BY <1>1, TakenIs DEF TakenKnown

(* Nothing is taken or given back: the books stay in order.                 *)
LEMMA BooksSame ==
    ASSUME BalanceIsBooked, \A r \in Requests : Taken'[r] = Taken[r],
           account'["PHASE_1"] # "none" =>
              /\ account["PHASE_1"] # "none"
              /\ balance' - net' = balance - net
              /\ {balance, net, balance', net'} \subseteq Int,
           \A r \in Requests : Taken[r] \in Int
    PROVE  BalanceIsBooked'
<1>1. IsFiniteSet(Requests)
  BY PayoutAssumption DEF PayoutAssumption
<1>2. SumFunctionOnSet(Taken', Requests) = SumFunctionOnSet(Taken, Requests)
  BY <1>1, SumAgree
<1>3. SumFunctionOnSet(Taken, Requests) \in Int
  BY <1>1, SumType
<1>4. Size \in Int
  BY ChallengeAssumption DEF ChallengeAssumption
<1>5. SUFFICES ASSUME account'["PHASE_1"] # "none"
               PROVE  balance' = Size + net' - SumFunctionOnSet(Taken', Requests)
  BY DEF BalanceIsBooked
<1>6. balance = Size + net - SumFunctionOnSet(Taken, Requests)
  BY <1>5 DEF BalanceIsBooked
<1>7. balance' - net' = balance - net /\ balance \in Int /\ net \in Int /\ balance' \in Int /\ net' \in Int
  BY <1>5
<1>. QED BY <1>2, <1>3, <1>4, <1>6, <1>7

(* One request takes or gives back, and the balance changes by as much.     *)
LEMMA BooksMove ==
    ASSUME BalanceIsBooked, NEW r \in Requests, NEW d \in Int,
           Taken'[r] = Taken[r] + d, \A q \in Requests \ {r} : Taken'[q] = Taken[q],
           \A q \in Requests : Taken[q] \in Int,
           balance' = balance - d, net' = net, account' = account,
           balance \in Int, net \in Int
    PROVE  BalanceIsBooked'
<1>1. IsFiniteSet(Requests) /\ Taken'[r] \in Int /\ Taken[r] \in Int
  BY PayoutAssumption DEF PayoutAssumption
<1>2. /\ SumFunctionOnSet(Taken', Requests)
            = SumFunctionOnSet(Taken, Requests) + (Taken'[r] - Taken[r])
      /\ SumFunctionOnSet(Taken, Requests) \in Int
  <2>1. \A q \in Requests : Taken[q] \in Int
    OBVIOUS
  <2>2. \A q \in Requests \ {r} : Taken'[q] = Taken[q]
    OBVIOUS
  <2>3. Taken'[r] \in Int
    BY <1>1
  <2>. QED BY <1>1, <2>1, <2>2, <2>3, SumPoint
<1>3. Size \in Int
  BY ChallengeAssumption DEF ChallengeAssumption
<1>. QED BY <1>1, <1>2, <1>3 DEF BalanceIsBooked

(* A fresh account, before anything was taken.                              *)
LEMMA BooksOpen ==
    ASSUME \A r \in Requests : Taken'[r] = 0, balance' = Size, net' = 0
    PROVE  BalanceIsBooked'
<1>1. IsFiniteSet(Requests)
  BY PayoutAssumption DEF PayoutAssumption
<1>2. SumFunctionOnSet(Taken', Requests) = 0
  BY <1>1, SumZero
<1>3. Size \in Int
  BY ChallengeAssumption DEF ChallengeAssumption
<1>. QED BY <1>2, <1>3 DEF BalanceIsBooked

-----------------------------------------------------------------------------
(* The operator's actions: request r changes, the others do not.            *)

OthersSame(r) ==
    \A q \in Requests \ {r} : /\ fpr'[q] = fpr[q] /\ wr'[q] = wr[q]
                              /\ submitting'[q] = submitting[q] /\ credits'[q] = credits[q]

(* ... and how it changes.                                                  *)
Keeps(r) ==
    /\ fpr'[r].cut = fpr[r].cut /\ (Debited(r)' <=> Debited(r)) /\ balance' = balance
Takes(r) ==
    /\ fpr'[r].cut = fpr[r].cut /\ ~Debited(r) /\ Debited(r)' /\ balance' = balance - fpr[r].cut
GivesBack(r) ==
    /\ fpr'[r].cut = fpr[r].cut /\ Debited(r) /\ ~Debited(r)' /\ balance' = balance + fpr[r].cut

OpenAt(r) ==
    /\ wr[r] \in {"APPROVED", "PROCESSING"} => fpr[r].status \in {"approved", "processing"}
    /\ submitting[r] = "posted" => wr[r] = "APPROVED"

LEMMA StatusKeepsCut ==
    ASSUME PayoutsTyped, NEW r \in Requests, NEW status \in ACTIVE_FPR \cup TERMINAL_FPR,
           SetStatus(r, status)
    PROVE  fpr'[r].cut = fpr[r].cut
  BY DEF PayoutsTyped, SetStatus, PayoutRow

LEMMA OperatorBooks ==
    ASSUME IInv, PayoutsOpen, PayoutByOperator
    PROVE  \E r \in Requests :
              /\ fpr[r].status # "none"
              /\ OthersSame(r) /\ OpenAt(r)'
              /\ Keeps(r) \/ Takes(r) \/ GivesBack(r)
<1>p. PayoutsTyped /\ \A r \in Requests : Placed(r) /\ OpenAt(r)
  BY DEF IInv, PayoutsPlaced, PayoutsOpen, OpenAt
<1>s. {"approved", "processing", "completed", "failed"} \subseteq ACTIVE_FPR \cup TERMINAL_FPR
  BY DEF ACTIVE_FPR, TERMINAL_FPR
<1>. DEFINE Done(r) == /\ fpr[r].status # "none"
                       /\ OthersSame(r) /\ OpenAt(r)'
                       /\ Keeps(r) \/ Takes(r) \/ GivesBack(r)
<1>1. ASSUME NEW r \in Requests, ApproveSim(r) PROVE Done(r)
  <2>1. /\ fpr[r].status = "pending" /\ balance' = balance - fpr[r].cut
        /\ credits' = [credits EXCEPT ![r] = @ + 1]
        /\ SetStatus(r, "completed")
        /\ UNCHANGED <<wr, seen, submitting, provider>>
    BY <1>1 DEF ApproveSim, MayApprove
  <2>2. /\ fpr'[r].status = "completed" /\ fpr'[r].cut = fpr[r].cut
        /\ \A q \in Requests \ {r} : fpr'[q] = fpr[q]
    BY <1>p, <1>s, <2>1, StatusRow, StatusKeepsCut
  <2>3. wr[r] = "none" /\ credits[r] = 0 /\ submitting[r] = "idle"
    BY <1>p, <2>1 DEF Placed
  <2>4. credits'[r] = 1 /\ \A q \in Requests \ {r} : credits'[q] = credits[q]
    BY <1>p, <2>1, <2>3 DEF PayoutsTyped
  <2>. QED BY <2>1, <2>2, <2>3, <2>4 DEF Takes, Debited, OthersSame, OpenAt
<1>2. ASSUME NEW r \in Requests, ApproveInternal(r) PROVE Done(r)
  <2>1. /\ fpr[r].status = "pending" /\ balance' = balance - fpr[r].cut
        /\ wr' = [wr EXCEPT ![r] = "APPROVED"]
        /\ SetStatus(r, "approved")
        /\ submitting' = [submitting EXCEPT ![r] = "debited"]
        /\ UNCHANGED <<initial, seen, provider, credits>>
    BY <1>2 DEF ApproveInternal, MayApprove
  <2>2. /\ fpr'[r].status = "approved" /\ fpr'[r].cut = fpr[r].cut
        /\ \A q \in Requests \ {r} : fpr'[q] = fpr[q]
    BY <1>p, <1>s, <2>1, StatusRow, StatusKeepsCut
  <2>3. wr[r] = "none" /\ credits[r] = 0
    BY <1>p, <2>1 DEF Placed
  <2>4. /\ wr'[r] = "APPROVED" /\ submitting'[r] = "debited"
        /\ \A q \in Requests \ {r} : wr'[q] = wr[q] /\ submitting'[q] = submitting[q]
    BY <1>p, <2>1 DEF PayoutsTyped
  <2>. QED BY <2>1, <2>2, <2>3, <2>4 DEF Takes, Debited, OthersSame, OpenAt
<1>3. ASSUME NEW r \in Requests, SubmitRejected(r) PROVE Done(r)
  <2>1. /\ submitting[r] = "debited" /\ balance' = balance + fpr[r].cut
        /\ wr' = [wr EXCEPT ![r] = "FAILED"]
        /\ SetStatus(r, "failed")
        /\ submitting' = [submitting EXCEPT ![r] = "idle"]
        /\ UNCHANGED <<initial, seen, provider, credits>>
    BY <1>3 DEF SubmitRejected, ReverseAndFail
  <2>2. /\ fpr'[r].status = "failed" /\ fpr'[r].cut = fpr[r].cut
        /\ \A q \in Requests \ {r} : fpr'[q] = fpr[q]
    BY <1>p, <1>s, <2>1, StatusRow, StatusKeepsCut
  <2>3. wr[r] = "APPROVED" /\ credits[r] = 0 /\ fpr[r].status # "none"
    BY <1>p, <2>1 DEF Placed, OpenAt
  <2>4. /\ wr'[r] = "FAILED" /\ submitting'[r] = "idle"
        /\ \A q \in Requests \ {r} : wr'[q] = wr[q] /\ submitting'[q] = submitting[q]
    BY <1>p, <2>1 DEF PayoutsTyped
  <2>. QED BY <2>1, <2>2, <2>3, <2>4 DEF GivesBack, Debited, OthersSame, OpenAt
<1>4. ASSUME NEW r \in Requests,
             \/ PostUnanswered(r) \/ PostAccepted(r) \/ SubmitStops(r) \/ ProviderSettles(r)
      PROVE  Done(r)
  <2>1. /\ UNCHANGED <<balance, fpr, wr, credits>>
        /\ submitting[r] # "idle" \/ provider[r] # "none"
        /\ \/ submitting' = submitting
           \/ submitting' = [submitting EXCEPT ![r] = "idle"]
           \/ /\ submitting[r] = "debited"
              /\ submitting' = [submitting EXCEPT ![r] = "posted"]
    BY <1>4 DEF PostUnanswered, PostAccepted, SubmitStops, ProviderSettles
  <2>2. fpr[r].status # "none"
    BY <1>p, <2>1 DEF Placed
  <2>3. OpenAt(r)' /\ \A q \in Requests \ {r} : submitting'[q] = submitting[q]
    BY <1>p, <2>1 DEF PayoutsTyped, OpenAt, Placed
  <2>. QED BY <2>1, <2>2, <2>3 DEF Keeps, Debited, OthersSame
<1>5. ASSUME NEW r \in Requests, SaveWithdrawal(r) PROVE Done(r)
  <2>1. /\ submitting[r] = "posted" /\ wr' = [wr EXCEPT ![r] = "PROCESSING"]
        /\ submitting' = [submitting EXCEPT ![r] = "saved"]
        /\ UNCHANGED <<balance, fpr, credits>>
    BY <1>5 DEF SaveWithdrawal
  <2>2. wr[r] = "APPROVED" /\ fpr[r].status \in {"approved", "processing"}
    BY <1>p, <2>1 DEF OpenAt
  <2>3. /\ wr'[r] = "PROCESSING" /\ submitting'[r] = "saved"
        /\ \A q \in Requests \ {r} : wr'[q] = wr[q] /\ submitting'[q] = submitting[q]
    BY <1>p, <2>1 DEF PayoutsTyped
  <2>. QED BY <2>1, <2>2, <2>3 DEF Keeps, Debited, OthersSame, OpenAt
<1>6. ASSUME NEW r \in Requests, SaveRequest(r) PROVE Done(r)
  <2>1. /\ submitting[r] = "saved" /\ submitting' = [submitting EXCEPT ![r] = "idle"]
        /\ UNCHANGED <<balance, wr, credits>>
        /\ UNCHANGED fpr \/ SetStatus(r, "processing")
    BY <1>6 DEF SaveRequest
  <2>2. /\ fpr'[r].status = "processing" \/ fpr'[r] = fpr[r]
        /\ fpr'[r].cut = fpr[r].cut
        /\ \A q \in Requests \ {r} : fpr'[q] = fpr[q]
    BY <1>p, <1>s, <2>1, StatusRow, StatusKeepsCut
  <2>3. submitting'[r] = "idle" /\ \A q \in Requests \ {r} : submitting'[q] = submitting[q]
    BY <1>p, <2>1 DEF PayoutsTyped
  <2>4. fpr[r].status # "none"
    BY <1>p, <2>1 DEF Placed
  <2>. QED BY <1>p, <2>1, <2>2, <2>3, <2>4 DEF Keeps, Debited, OthersSame, OpenAt
<1>7. ASSUME NEW r \in Requests, Webhook(r) PROVE Done(r)
  <2>1. /\ provider[r] \in TERMINAL_WR /\ wr[r] = "PROCESSING"
        /\ SettleRequest(r, provider[r])
        /\ wr' = [wr EXCEPT ![r] = provider[r]]
        /\ UNCHANGED <<seen, submitting, provider, credits>>
    BY <1>7 DEF Webhook
  <2>2. /\ fpr[r].status \in {"approved", "processing"} /\ credits[r] = 0
        /\ submitting[r] # "posted" /\ fpr[r].status \notin TERMINAL_FPR
    BY <1>p, <2>1 DEF OpenAt, Placed, TERMINAL_FPR
  <2>3. /\ wr'[r] = provider[r]
        /\ \A q \in Requests \ {r} : wr'[q] = wr[q]
    BY <1>p, <2>1 DEF PayoutsTyped
  <2>4. CASE provider[r] = "COMPLETED" /\ SetStatus(r, "completed") /\ UNCHANGED balance
    <3>1. /\ fpr'[r].cut = fpr[r].cut /\ \A q \in Requests \ {r} : fpr'[q] = fpr[q]
      BY <1>p, <1>s, <2>4, StatusRow, StatusKeepsCut
    <3>. QED BY <2>1, <2>2, <2>3, <2>4, <3>1 DEF Keeps, Debited, OthersSame, OpenAt
  <2>5. CASE /\ provider[r] = "FAILED" /\ SetStatus(r, "failed")
             /\ balance' = balance + fpr[r].cut
    <3>1. /\ fpr'[r].cut = fpr[r].cut /\ \A q \in Requests \ {r} : fpr'[q] = fpr[q]
      BY <1>p, <1>s, <2>5, StatusRow, StatusKeepsCut
    <3>. QED BY <2>1, <2>2, <2>3, <2>5, <3>1 DEF GivesBack, Debited, OthersSame, OpenAt
  <2>. QED BY <2>1, <2>2, <2>4, <2>5 DEF SettleRequest
<1>. QED BY <1>1, <1>2, <1>3, <1>4, <1>5, <1>6, <1>7 DEF PayoutByOperator

LEMMA OpenInit == Init => PayoutsOpen /\ BalanceIsBooked
  BY DEF Init, PayoutInit, NoPayout, PayoutsOpen, BalanceIsBooked, Stages, Phases

LEMMA BooksStep ==
    ASSUME IInv, IInv', PayoutsOpen, BalanceIsBooked, [Next]_vars
    PROVE  PayoutsOpen' /\ BalanceIsBooked'
<1>t. TakenKnown /\ TakenKnown'
  BY TakenIs, TakenNext
<1>n. balance \in Int /\ net \in Int /\ balance' \in Int /\ net' \in Int
  BY DEF IInv, BalancesTyped, AccountsTyped
<1>i. \A r \in Requests : Taken[r] \in Int
  BY <1>t DEF TakenKnown
<1>1. ASSUME UNCHANGED payoutVars
      PROVE  \A r \in Requests : Taken'[r] = Taken[r]
  BY <1>1 DEF payoutVars, Taken
<1>2. ASSUME UNCHANGED payoutVars, enrollment' = enrollment \/ enrollment # "FUNDED"
      PROVE  PayoutsOpen'
  BY <1>2 DEF PayoutsOpen, payoutVars
<1>3. ASSUME UNCHANGED payoutVars, enrollment # "FUNDED", balance' = Size, net' = 0
      PROVE  PayoutsOpen' /\ BalanceIsBooked'
  <2>1. \A r \in Requests : Taken'[r] = 0
    BY <1>1, <1>3, NothingTaken
  <2>. QED BY <1>2, <1>3, <2>1, BooksOpen
<1>4. ASSUME UNCHANGED payoutVars, enrollment' = enrollment \/ enrollment # "FUNDED",
             account["PHASE_1"] = "none" => account'["PHASE_1"] = "none",
             balance' - net' = balance - net
      PROVE  PayoutsOpen' /\ BalanceIsBooked'
  <2>1. BalanceIsBooked'
    BY <1>1, <1>4, <1>n, <1>i, BooksSame
  <2>. QED BY <1>2, <1>4, <2>1
<1>a. /\ account["PHASE_1"] = "none" => \A s \in Stages : account[s] = "none"
      /\ account["PHASE_1"] = "none" => evaluating = NoReading /\ enrollment # "FUNDED"
      /\ evaluating # NoReading => enrollment \in Phases /\ enrollment # "FUNDED"
  BY DEF IInv, AccountsPlaced, Phases
<1>5. CASE Activate
  BY <1>3, <1>5, <1>a DEF Activate, OpenAccount
<1>6. ASSUME NEW pnl \in Results, CloseTrade(pnl) PROVE PayoutsOpen' /\ BalanceIsBooked'
  <2>1. /\ UNCHANGED payoutVars /\ enrollment' = enrollment
        /\ balance' = balance + pnl /\ net' = net + pnl
        /\ account[enrollment] # "none" /\ enrollment \in Stages
    BY <1>6 DEF CloseTrade
  <2>2. account["PHASE_1"] # "none"
    BY <1>a, <2>1
  <2>3. pnl \in Int
    BY ChallengeAssumption DEF ChallengeAssumption
  <2>4. balance' - net' = balance - net
    BY <1>n, <2>1, <2>3
  <2>. QED BY <1>4, <2>1, <2>2, <2>4
<1>7. CASE NewDay \/ EvaluateRead
  <2>1. UNCHANGED <<payoutVars, enrollment, account, balance, net>>
    BY <1>7 DEF NewDay, EvaluateRead, SameAccount
  <2>. QED BY <1>4, <2>1
<1>8. CASE EvaluateUnactivated
  <2>1. UNCHANGED <<payoutVars, account, balance, net>> /\ enrollment # "FUNDED"
    BY <1>8 DEF EvaluateUnactivated, SameAccount
  <2>. QED BY <1>4, <2>1
<1>9. CASE EvaluateDecide
  <2>1. UNCHANGED payoutVars /\ enrollment # "FUNDED" /\ account["PHASE_1"] # "none"
    BY <1>9, <1>a DEF EvaluateDecide
  <2>2. CASE \E stage : Advance(stage)
    BY <1>3, <2>1, <2>2 DEF Advance, OpenAccount
  <2>3. CASE MarkFailed
    BY <1>4, <2>1, <2>3 DEF MarkFailed
  <2>4. CASE SameAccount
    BY <1>4, <2>1, <2>4 DEF SameAccount
  <2>. QED BY <1>9, <2>2, <2>3, <2>4 DEF EvaluateDecide
<1>10. CASE RequestPayout
  <2>1. enrollment = "FUNDED" /\ UNCHANGED challengeVars
    BY <1>10 DEF RequestPayout
  <2>2. UNCHANGED <<account, net, enrollment>>
    BY <2>1 DEF challengeVars
  <2>3. UNCHANGED <<balance, wr, submitting, credits>>
    BY <1>10 DEF RequestPayout, ReadCycle, CreatePayout
  <2>4. ASSUME NEW q \in Requests
        PROVE  /\ fpr'[q] = fpr[q] \/ (fpr[q].status = "none" /\ fpr'[q].status = "pending")
    <3>1. \/ fpr' = fpr
          \/ \E v \in Views, r \in Requests : CreatePayout(v, r)
      BY <1>10 DEF RequestPayout, ReadCycle
    <3>2. ASSUME NEW v \in Views, NEW r \in Requests, CreatePayout(v, r)
          PROVE  fpr'[q] = fpr[q] \/ (fpr[q].status = "none" /\ fpr'[q].status = "pending")
      BY <3>2 DEF CreatePayout, IInv, PayoutsTyped
    <3>. QED BY <3>1, <3>2
  <2>5. ASSUME NEW q \in Requests PROVE Taken'[q] = Taken[q]
    <3>1. CASE fpr'[q] = fpr[q]
      BY <2>3, <3>1 DEF Taken
    <3>2. CASE fpr[q].status = "none"
      <4>1. ~Debited(q)
        BY <3>2 DEF IInv, PayoutsPlaced, Placed, Debited
      <4>2. ~Debited(q)'
        BY <2>3, <4>1 DEF Debited
      <4>. QED BY <1>t, <4>1, <4>2 DEF TakenKnown
    <3>. QED BY <2>4, <3>1, <3>2
  <2>6. BalanceIsBooked'
    <3>1. balance' - net' = balance - net
      BY <2>2, <2>3
    <3>. QED BY <2>2, <2>5, <3>1, <1>n, <1>i, BooksSame
  <2>7. PayoutsOpen'
    BY <2>1, <2>2, <2>3, <2>4 DEF PayoutsOpen, IInv, PayoutsPlaced, Placed
  <2>. QED BY <2>6, <2>7
<1>11. CASE Payouts
  <2>1. UNCHANGED <<account, net, enrollment>>
    BY <1>11 DEF Payouts, challengeVars
  <2>2. PICK r \in Requests :
           /\ fpr[r].status # "none"
           /\ OthersSame(r) /\ OpenAt(r)'
           /\ Keeps(r) \/ Takes(r) \/ GivesBack(r)
    BY <1>11, OperatorBooks DEF Payouts
  <2>3. PayoutsOpen'
    BY <2>1, <2>2 DEF PayoutsOpen, OthersSame, OpenAt
  <2>4. \A q \in Requests \ {r} : Taken'[q] = Taken[q]
    BY <2>2 DEF Taken, OthersSame
  <2>5. fpr[r].cut \in Nat
    BY CutTyped DEF IInv
  <2>6. /\ Taken[r] = IF Debited(r) THEN fpr[r].cut ELSE 0
        /\ Taken'[r] = IF Debited(r)' THEN fpr'[r].cut ELSE 0
    BY <1>t DEF TakenKnown
  <2>7. PICK d \in Int : Taken'[r] = Taken[r] + d /\ balance' = balance - d
    <3>1. CASE Keeps(r)
      <4>1. Taken'[r] = Taken[r] + 0 /\ balance' = balance - 0
        BY <2>5, <2>6, <3>1, <1>n DEF Keeps
      <4>. QED BY <4>1
    <3>2. CASE Takes(r)
      <4>1. Taken'[r] = Taken[r] + fpr[r].cut /\ balance' = balance - fpr[r].cut
        BY <2>5, <2>6, <3>2 DEF Takes
      <4>. QED BY <2>5, <4>1
    <3>3. CASE GivesBack(r)
      <4>1. /\ Taken'[r] = Taken[r] + (- fpr[r].cut) /\ balance' = balance - (- fpr[r].cut)
            /\ - fpr[r].cut \in Int
        BY <2>5, <2>6, <3>3, <1>n DEF GivesBack
      <4>. QED BY <4>1
    <3>. QED BY <2>2, <3>1, <3>2, <3>3
  <2>8. BalanceIsBooked'
    BY <2>1, <2>4, <2>7, <1>n, <1>i, BooksMove
  <2>. QED BY <2>3, <2>8
<1>12. CASE UNCHANGED vars
  <2>1. UNCHANGED <<payoutVars, enrollment, account, balance, net>>
    BY <1>12 DEF vars, challengeVars
  <2>. QED BY <1>4, <2>1
<1>. QED BY <1>5, <1>6, <1>7, <1>8, <1>9, <1>10, <1>11, <1>12 DEF Next

(* The funded balance is what was put in and traded, less one cut for each  *)
(* request that was paid or may still be: approving twice, a repeated       *)
(* webhook, a reversal and an update that overwrites it move nothing twice. *)
THEOREM BalanceBooked == Spec => []BalanceIsBooked
<1>1. /\ IInv /\ IInv' /\ PayoutsOpen /\ BalanceIsBooked /\ [Next]_vars
      => (PayoutsOpen /\ BalanceIsBooked)'
  BY BooksStep
<1>. QED BY <1>1, OpenInit, Invariant, PTL DEF Spec
=============================================================================

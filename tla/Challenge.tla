------------------------------ MODULE Challenge ------------------------------
(***************************************************************************)
(* A two-phase challenge.  Each phase trades on an account of its own; the *)
(* evaluation, run by a beat task and by operators, fails the enrollment,  *)
(* moves it to the next phase, or in the end to a funded account whose     *)
(* profit FundedPayout pays out.                                           *)
(*                                                                         *)
(*   simulator/challenge_engine.py   activate, evaluate, advance, fail     *)
(*   simulator/risk_engine.py        check_and_enforce_risk                *)
(*   simulator/tasks.py              evaluate_all_challenges_task          *)
(*                                                                         *)
(* Only the account the enrollment is on is kept in detail: of the earlier *)
(* ones nothing but the status is read again.                              *)
(***************************************************************************)
EXTENDS FundedPayout

CONSTANTS
    Size,              \* ChallengeProduct.account_size
    TargetPct,         \* per phase, p1_/p2_profit_target_pct
    MaxDrawdownPct,    \* RiskRule.max_drawdown_pct, the same in every phase here
    MaxDailyLossPct,   \* RiskRule.max_daily_loss_pct, likewise
    MinTradingDays,    \* p1_/p2_min_trading_days and FundedConfig.min_trading_days
    MaxDurationDays,   \* p1_/p2_max_duration_days
    Results,           \* what closing a position may realize (a bound)
    MinBalance, MaxBalance,  \* the balances trading may reach (bounds)
    MaxGains           \* the profits an account may realize in all (a bound)

Phases == {"PHASE_1", "PHASE_2"}
Stages == Phases \cup {"FUNDED"}

ASSUME ChallengeAssumption ==
    /\ {Size, MaxDailyLossPct, MaxDrawdownPct} \subseteq Nat \ {0}
    /\ TargetPct \in [Phases -> Nat \ {0}]
    /\ {MinTradingDays, MaxDurationDays, MinBalance, MaxBalance, MaxGains} \subseteq Nat
    /\ Results \subseteq Int

VARIABLES
    enrollment,  \* ChallengeEnrollment.status
    account,     \* status of the account of each stage, "none" before it exists
    peak,        \* peak_balance of the current account
    today,       \* what it has realized since midnight
    days,        \* the days on which it has closed a trade, up to MinTradingDays
    tradedToday, \* today is one of them
    age,         \* whole days since the account was created
    evaluating,  \* what a running evaluation has read of the account
    net,         \* all the current account has realized
    gains        \* ... the profitable part of it

challengeVars == <<enrollment, account, peak, today, days, tradedToday, age,
                   evaluating, net, gains>>
vars == <<challengeVars, balance, initial, payoutVars>>

NoReading == [balance |-> -1, peak |-> -1]

TypeOK ==
    /\ PayoutTypeOK
    /\ enrollment \in Stages \cup {"FAILED"}
    /\ account \in [Stages -> {"none", "Activo", "Suspendido", "Funded"}]
    /\ peak \in Nat
    /\ today \in Int
    /\ days \in 0 .. MinTradingDays
    /\ tradedToday \in BOOLEAN
    /\ age \in 0 .. MaxDurationDays + 1
    /\ evaluating \in [balance : Nat, peak : Nat] \cup {NoReading}
    /\ net \in Int
    /\ gains \in Nat

Init ==
    /\ enrollment = "PHASE_1"
    /\ account = [s \in Stages |-> "none"]
    /\ balance = 0 /\ initial = 0 /\ peak = 0
    /\ today = 0 /\ days = 0 /\ tradedToday = FALSE /\ age = 0
    /\ evaluating = NoReading
    /\ net = 0 /\ gains = 0
    /\ PayoutInit

(* TradingAccount.save of a new row: every balance starts at the size.      *)
OpenAccount(accounts, stage) ==
    /\ account' = [accounts EXCEPT ![stage] = "Activo"]
    /\ balance' = Size /\ initial' = Size /\ peak' = Size
    /\ today' = 0 /\ days' = 0 /\ tradedToday' = FALSE /\ age' = 0
    /\ net' = 0 /\ gains' = 0

SameAccount == UNCHANGED <<account, balance, initial, peak, today, days, tradedToday,
                           age, net, gains>>

(* activate_challenge_enrollment; a second call finds the account and       *)
(* returns it.                                                              *)
M_Activate_Again ==
    /\ enrollment' = "PHASE_1"
    /\ OpenAccount(account, "PHASE_1")
    /\ UNCHANGED <<evaluating, payoutVars>>

Activate ==
    /\ account["PHASE_1"] = "none"
    /\ enrollment' = "PHASE_1"
    /\ OpenAccount(account, "PHASE_1")
    /\ UNCHANGED <<evaluating, payoutVars>>

-----------------------------------------------------------------------------
(* Trading on the current account, and the risk engine behind every close.  *)

Larger(a, b) == IF a > b THEN a ELSE b

(* _pct of the risk engine rounds half up, to the hundredth of a percent.   *)
PctHalfUp(part, whole) == (20000 * part + whole) \div (2 * whole)

(* check_and_enforce_risk: either limit suspends the account.               *)
BreaksLimit(top, bal, pnl) ==
    /\ top > 0
    /\ \/ PctHalfUp(top - bal, top) >= 100 * MaxDrawdownPct
       \/ pnl < 0 /\ PctHalfUp(-pnl, top) >= 100 * MaxDailyLossPct

(* Positions that are open when the account is suspended may still close.   *)
CloseTrade(pnl) ==
    /\ enrollment \in Stages
    /\ account[enrollment] # "none"
    /\ balance + pnl \in MinBalance .. MaxBalance
    /\ gains + Larger(pnl, 0) <= MaxGains
    /\ balance' = balance + pnl
    /\ peak' = Larger(peak, balance')
    /\ today' = today + pnl
    /\ tradedToday' = TRUE
    /\ days' = IF tradedToday \/ days = MinTradingDays THEN days ELSE days + 1
    /\ net' = net + pnl
    /\ gains' = gains + Larger(pnl, 0)
    /\ IF BreaksLimit(peak', balance', today')
       THEN account' = [account EXCEPT ![enrollment] = "Suspendido"]
       ELSE UNCHANGED account
    /\ UNCHANGED <<enrollment, initial, age, evaluating, payoutVars>>

(* Midnight.  Beyond the last day of a phase, more days tell nothing new.   *)
NewDay ==
    /\ enrollment \in Stages
    /\ account[enrollment] # "none"
    /\ age' = IF age > MaxDurationDays THEN age ELSE age + 1
    /\ today' = 0
    /\ tradedToday' = FALSE
    /\ UNCHANGED <<enrollment, account, balance, initial, peak, days, evaluating,
                   net, gains, payoutVars>>

-----------------------------------------------------------------------------
(* The evaluation holds the lock of the enrollment, not of the account: it  *)
(* reads the account first, its ledger, its trades and the date afterwards. *)

EvaluateRead ==
    /\ enrollment \in Phases
    /\ evaluating = NoReading
    /\ account[enrollment] # "none"
    /\ evaluating' = [balance |-> balance, peak |-> peak]
    /\ SameAccount
    /\ UNCHANGED <<enrollment, payoutVars>>

Target(phase) == Quantize(Size * TargetPct[phase], 100)

(* _profit_pct, in hundredths of a percent: the progress towards the target *)
(* in dollars.                                                              *)
ProfitPct(phase) == Quantize(10000 * (evaluating.balance - Size), Target(phase))

DrawdownExceeded ==
    (evaluating.peak - evaluating.balance) * 100 >= MaxDrawdownPct * evaluating.peak

DailyLossExceeded ==
    today < 0 /\ Quantize(10000 * (-today), evaluating.peak) >= 100 * MaxDailyLossPct

Overdue == age > MaxDurationDays

(* evaluate_phase, in the order of its checks.                              *)
M_Verdict_NoDeadline ==
    IF DrawdownExceeded \/ DailyLossExceeded THEN "FAILED"
    ELSE IF /\ ProfitPct(enrollment) >= 100 * TargetPct[enrollment]
            /\ days >= MinTradingDays
         THEN "PASSED"
         ELSE "IN_PROGRESS"

Verdict ==
    IF DrawdownExceeded \/ DailyLossExceeded \/ Overdue THEN "FAILED"
    ELSE IF /\ ProfitPct(enrollment) >= 100 * TargetPct[enrollment]
            /\ days >= MinTradingDays
         THEN "PASSED"
         ELSE "IN_PROGRESS"

(* advance_to_phase2, advance_to_funded: the account of the phase is closed *)
(* as passed and the next one opened.                                       *)
M_Advance_KeepsTheOldAccount(stage) ==
    /\ enrollment' = stage
    /\ OpenAccount(account, stage)

Advance(stage) ==
    /\ enrollment' = stage
    /\ OpenAccount([account EXCEPT ![enrollment] = "Funded"], stage)

(* _mark_failed                                                             *)
MarkFailed ==
    /\ account' = [account EXCEPT ![enrollment] = "Suspendido"]
    /\ enrollment' = "FAILED"
    /\ UNCHANGED <<balance, initial, peak, today, days, tradedToday, age, net, gains>>

EvaluateDecide ==
    /\ evaluating # NoReading
    /\ \/ Verdict = "PASSED" /\ Advance(IF enrollment = "PHASE_1" THEN "PHASE_2" ELSE "FUNDED")
       \/ Verdict = "FAILED" /\ MarkFailed
       \/ Verdict = "IN_PROGRESS" /\ SameAccount /\ UNCHANGED enrollment
    /\ evaluating' = NoReading
    /\ UNCHANGED payoutVars

(* An enrollment typed in by staff has no account before they activate it;  *)
(* the evaluation fails it for want of one.                                 *)
EvaluateUnactivated ==
    /\ enrollment = "PHASE_1"
    /\ account["PHASE_1"] = "none"
    /\ enrollment' = "FAILED"
    /\ SameAccount
    /\ UNCHANGED <<evaluating, payoutVars>>

-----------------------------------------------------------------------------
(* Payouts of the funded account.                                           *)

RequestPayout ==
    /\ enrollment = "FUNDED"
    /\ \/ /\ account["FUNDED"] = "Activo"
          /\ days >= MinTradingDays
          /\ \E v \in Views, kind \in FundedTypes : ReadCycle(v, kind)
       \/ \E v \in Views, r \in Requests : CreatePayout(v, r)
    /\ UNCHANGED challengeVars

Payouts == PayoutByOperator /\ UNCHANGED challengeVars

Next ==
    \/ Activate
    \/ \E pnl \in Results : CloseTrade(pnl)
    \/ NewDay
    \/ EvaluateRead
    \/ EvaluateDecide
    \/ EvaluateUnactivated
    \/ RequestPayout
    \/ Payouts

Spec == Init /\ [][Next]_vars

(* The beat task evaluates every enrollment again and again, and days pass. *)
Fairness == WF_vars(EvaluateRead) /\ WF_vars(EvaluateDecide) /\ WF_vars(NewDay)

FairSpec == Spec /\ Fairness

-----------------------------------------------------------------------------
(* An account that takes orders is the one of the stage the enrollment is   *)
(* in: passing a phase, failing it and activating twice never leave another *)
(* one open behind.                                                         *)
OnlyTheCurrentAccountTrades ==
    \A s \in Stages : account[s] = "Activo" => enrollment = s

Rank(stage) == CASE stage = "PHASE_1" -> 1 [] stage = "PHASE_2" -> 2
                 [] stage = "FUNDED" -> 3 [] stage = "FAILED" -> 4

(* An enrollment that has an account goes through its phases in order and   *)
(* never back, and neither a failed one nor a funded one changes again,     *)
(* however often it is activated and evaluated.                             *)
PhasesOnlyAdvance ==
    [][account["PHASE_1"] # "none" =>
          \/ enrollment' = enrollment
          \/ enrollment \in Phases /\ enrollment' = "FAILED"
          \/ enrollment \in Phases /\ Rank(enrollment') = Rank(enrollment) + 1]_vars

(* No phase lasts forever: the deadline ends the ones that neither pass nor *)
(* break a limit.                                                           *)
EveryPhaseEnds ==
    \A p \in Phases : (enrollment = p /\ account[p] # "none") ~> enrollment # p

(* What each request has taken out of the funded balance, for good or, as   *)
(* long as its withdrawal has not failed, until it is given back.           *)
Taken == [r \in Requests |->
            fpr[r].cut * (credits[r] + IF wr[r] \in {"none", "FAILED"} THEN 0 ELSE 1)]

(* The funded balance is what was put in and traded, less one cut for each  *)
(* request that was paid or may still be: approving twice, a repeated       *)
(* webhook, a reversal and an update that overwrites it move nothing twice. *)
BalanceIsBooked ==
    account["PHASE_1"] # "none" => balance = Size + net - SumFunctionOnSet(Taken, Requests)

(* The trader's debit is given back only for a payout the provider has not  *)
(* paid and cannot pay any more, and at most one wallet credit is made.     *)
PaidOrGivenBack ==
    \A r \in Requests :
        /\ provider[r] \in {"accepted", "COMPLETED"} => wr[r] # "FAILED"
        /\ credits[r] <= 1
        /\ credits[r] = 1 => fpr[r].status = "completed"

-----------------------------------------------------------------------------
(* Checked, and refuted by the code: see the README.                        *)

(* A phase is passed with the profit the product asks for:                  *)
(* p1_profit_target_pct percent of the size.                                *)
PassedAtTheTarget ==
    [][\A p \in Phases : (enrollment = p /\ enrollment' \in Stages \ {p}) =>
          evaluating.balance - Size >= Target(p)]_vars

(* The profits of the payouts completed so far were all earned: no profit   *)
(* is shared with the trader twice.                                         *)
ProfitSharedOnce ==
    MapThenSumSet(LAMBDA r : fpr[r].profit,
                  {r \in Requests : fpr[r].status = "completed"}) <= gains
=============================================================================

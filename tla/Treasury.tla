------------------------------ MODULE Treasury ------------------------------
(***************************************************************************)
(* Treasury operation requests: a member of staff asks for a credit or a   *)
(* debit of a client's wallet, another one approves, a third one executes. *)
(* Execution is two transactions, and a process that stops between them    *)
(* leaves a request in EXECUTING, which only the recovery service can end. *)
(*                                                                         *)
(*   simulator/treasury_requests.py            submit ... execute          *)
(*   simulator/treasury_execution_recovery.py  inspect, mark failed        *)
(*   simulator/wallet_ledger.py                credit_wallet, debit_wallet *)
(*                                                                         *)
(* The module has no Spec of its own: IBSettlement composes it with the    *)
(* obligations of introducing brokers that submit most of its requests.    *)
(***************************************************************************)
EXTENDS Integers, FiniteSets

CONSTANTS
    Reqs,        \* primary keys of TreasuryOperationRequest, 1..n
    Staff,
    Submitters, Reviewers, Executors, Recoverers,   \* holders of each permission
    Amounts,     \* the amounts a request may ask for
    References,  \* what a request may be about (its reference)
    Manual,      \* ... the reference of one that staff has typed in
    NoOne

ASSUME TreasuryAssumption ==
    /\ Reqs \subseteq Nat
    /\ Amounts \subseteq Nat \ {0}
    /\ Submitters \cup Reviewers \cup Executors \cup Recoverers \subseteq Staff
    /\ NoOne \notin Staff /\ Manual \in References

RequestStatus == {"none", "pending", "approved", "rejected", "cancelled",
                  "executing", "executed", "failed"}

TERMINAL_NON_SUCCESS == {"rejected", "cancelled", "failed"}

NoRequest == [status |-> "none", debit |-> FALSE, amount |-> 0, reference |-> Manual,
              requested_by |-> NoOne, approved_by |-> NoOne, executed_by |-> NoOne]

VARIABLES
    req,        \* the TreasuryOperationRequest rows
    tx,         \* number of WalletTransaction rows each request has caused
    balance,    \* Wallet.available_balance of the broker's wallet
    started,    \* an EXECUTION_STARTED event of the request is on record
    aged,       \* ... and is older than TREASURY_EXECUTION_RECOVERY_MIN_AGE_SECONDS
    exec,       \* program counter of the thread that executes the request
    recovery    \* who has passed the unlocked gate of the recovery service

treasuryVars == <<req, tx, balance, started, aged, exec, recovery>>

TreasuryTypeOK ==
    /\ req \in [Reqs -> [status : RequestStatus, debit : BOOLEAN, amount : Amounts \cup {0}, reference : References,
                         requested_by : Staff \cup {NoOne},
                         approved_by : Staff \cup {NoOne},
                         executed_by : Staff \cup {NoOne}]]
    /\ tx \in [Reqs -> Nat]
    /\ balance \in Nat
    /\ started \in [Reqs -> BOOLEAN]
    /\ aged \in [Reqs -> BOOLEAN]
    /\ exec \in [Reqs -> {"idle", "auditing", "moving", "failing"}]
    /\ recovery \in [Reqs -> Staff \cup {NoOne}]

TreasuryInit ==
    /\ req = [r \in Reqs |-> NoRequest]
    /\ tx = [r \in Reqs |-> 0]
    /\ balance = 0
    /\ started = [r \in Reqs |-> FALSE]
    /\ aged = [r \in Reqs |-> FALSE]
    /\ exec = [r \in Reqs |-> "idle"]
    /\ recovery = [r \in Reqs |-> NoOne]

Status(r) == req[r].status

-----------------------------------------------------------------------------
(* Requests and their review.  Primary keys are handed out in order.        *)

IsNextKey(r) ==
    /\ Status(r) = "none"
    /\ \A q \in Reqs : q < r => Status(q) # "none"

(* submit_treasury_request: the row is PENDING, whoever asked for it.       *)
CreateRequest(r, s, debit, amount, reference) ==
    /\ IsNextKey(r)
    /\ s \in Submitters
    /\ req' = [req EXCEPT ![r] = [NoRequest EXCEPT !.status = "pending", !.debit = debit,
                                                   !.amount = amount, !.reference = reference,
                                                   !.requested_by = s]]
    /\ UNCHANGED <<tx, balance, started, aged, exec, recovery>>

Approve(r, s) ==
    /\ s \in Reviewers
    /\ Status(r) = "pending"
    /\ req[r].requested_by # s
    /\ req' = [req EXCEPT ![r].status = "approved", ![r].approved_by = s]
    /\ UNCHANGED <<tx, balance, started, aged, exec, recovery>>

Reject(r, s) ==
    /\ s \in Reviewers
    /\ Status(r) = "pending"
    /\ req[r].requested_by # s
    /\ req' = [req EXCEPT ![r].status = "rejected"]
    /\ UNCHANGED <<tx, balance, started, aged, exec, recovery>>

(* The requester withdraws it, or a supervisor does.                        *)
Cancel(r, s) ==
    /\ Status(r) = "pending"
    /\ s \in IF req[r].requested_by = s THEN Submitters ELSE Reviewers
    /\ req' = [req EXCEPT ![r].status = "cancelled"]
    /\ UNCHANGED <<tx, balance, started, aged, exec, recovery>>

-----------------------------------------------------------------------------
(* Execution: Step A commits EXECUTING, the audit events are written after  *)
(* it, Step B moves the money and commits EXECUTED in one transaction.      *)

M_StartExecution_Anyone(r, s) ==
    /\ s \in Executors
    /\ Status(r) = "approved"
    /\ req' = [req EXCEPT ![r].status = "executing", ![r].executed_by = s]
    /\ exec' = [exec EXCEPT ![r] = "auditing"]
    /\ UNCHANGED <<tx, balance, started, aged, recovery>>

StartExecution(r, s) ==
    /\ s \in Executors
    /\ Status(r) = "approved"
    /\ s \notin {req[r].requested_by, req[r].approved_by}
    /\ req' = [req EXCEPT ![r].status = "executing", ![r].executed_by = s]
    /\ exec' = [exec EXCEPT ![r] = "auditing"]
    /\ UNCHANGED <<tx, balance, started, aged, recovery>>

(* Both audit helpers are fail-open: the event may be lost.                 *)
RecordStarted(r) ==
    /\ exec[r] = "auditing"
    /\ started' \in {started, [started EXCEPT ![r] = TRUE]}
    /\ exec' = [exec EXCEPT ![r] = "moving"]
    /\ UNCHANGED <<req, tx, balance, aged, recovery>>

CanPay(r) == req[r].debit => req[r].amount <= balance

NewBalance(r) == IF req[r].debit THEN balance - req[r].amount ELSE balance + req[r].amount

M_MoveMoney_NoRecheck(r) ==
    /\ exec[r] = "moving"
    /\ CanPay(r)
    /\ balance' = NewBalance(r)
    /\ tx' = [tx EXCEPT ![r] = @ + 1]
    /\ req' = [req EXCEPT ![r].status = "executed"]
    /\ exec' = [exec EXCEPT ![r] = "idle"]
    /\ UNCHANGED <<started, aged, recovery>>

(* Step B rechecks under its own lock what Step A had committed.            *)
MoveMoney(r) ==
    /\ exec[r] = "moving"
    /\ Status(r) = "executing"
    /\ tx[r] = 0
    /\ CanPay(r)
    /\ balance' = NewBalance(r)
    /\ tx' = [tx EXCEPT ![r] = @ + 1]
    /\ req' = [req EXCEPT ![r].status = "executed"]
    /\ exec' = [exec EXCEPT ![r] = "idle"]
    /\ UNCHANGED <<started, aged, recovery>>

(* Step B is rolled back: a recheck fails, the wallet is short of funds, or *)
(* the database gives up.                                                   *)
StepBRaises(r) ==
    /\ exec[r] = "moving"
    /\ exec' = [exec EXCEPT ![r] = "failing"]
    /\ UNCHANGED <<req, tx, balance, started, aged, recovery>>

(* The except clause: a conditional UPDATE, which may match no row.         *)
MarkFailed(r) ==
    /\ exec[r] = "failing"
    /\ req' = [req EXCEPT ![r].status = IF @ = "executing" /\ tx[r] = 0 THEN "failed" ELSE @]
    /\ exec' = [exec EXCEPT ![r] = "idle"]
    /\ UNCHANGED <<tx, balance, started, aged, recovery>>

(* The process stops; whatever it had not committed is lost.                *)
Crash(r) ==
    /\ exec[r] # "idle"
    /\ exec' = [exec EXCEPT ![r] = "idle"]
    /\ UNCHANGED <<req, tx, balance, started, aged, recovery>>

-----------------------------------------------------------------------------
(* Recovery of executions that never ended.                                 *)

(* The age of an execution is that of its EXECUTION_STARTED event; nothing  *)
(* bounds how long the executing thread itself may take.                    *)
GrowOld(r) ==
    /\ started[r] /\ ~aged[r]
    /\ Status(r) = "executing"
    /\ aged' = [aged EXCEPT ![r] = TRUE]
    /\ UNCHANGED <<req, tx, balance, started, exec, recovery>>

(* _classify: unknown age and a linked wallet transaction both block.       *)
Eligible(r) == Status(r) = "executing" /\ tx[r] = 0 /\ started[r] /\ aged[r]

RecoverInspect(r, s) ==
    /\ s \in Recoverers
    /\ recovery[r] = NoOne
    /\ Eligible(r)
    /\ s \notin {req[r].requested_by, req[r].approved_by}
    /\ recovery' = [recovery EXCEPT ![r] = s]
    /\ UNCHANGED <<req, tx, balance, started, aged, exec>>

M_RecoverApply_TrustsTheGate(r) ==
    /\ recovery[r] # NoOne
    /\ req' = [req EXCEPT ![r].status = "failed"]
    /\ recovery' = [recovery EXCEPT ![r] = NoOne]
    /\ UNCHANGED <<tx, balance, started, aged, exec>>

(* Everything the gate had seen is checked again under the row's lock.      *)
RecoverApply(r) ==
    /\ recovery[r] # NoOne
    /\ Eligible(r)
    /\ req' = [req EXCEPT ![r].status = "failed"]
    /\ recovery' = [recovery EXCEPT ![r] = NoOne]
    /\ UNCHANGED <<tx, balance, started, aged, exec>>

(* The row is locked by Step B, or has changed: RECOVERY_BLOCKED.           *)
RecoverBlocked(r) ==
    /\ recovery[r] # NoOne
    /\ recovery' = [recovery EXCEPT ![r] = NoOne]
    /\ UNCHANGED <<req, tx, balance, started, aged, exec>>

TreasuryNext ==
    \E r \in Reqs :
        \/ \E s \in Staff : \/ Approve(r, s) \/ Reject(r, s) \/ Cancel(r, s)
                            \/ StartExecution(r, s)
                            \/ RecoverInspect(r, s)
        \/ RecordStarted(r) \/ MoveMoney(r) \/ StepBRaises(r) \/ MarkFailed(r) \/ Crash(r)
        \/ GrowOld(r) \/ RecoverApply(r) \/ RecoverBlocked(r)

-----------------------------------------------------------------------------
(* Money moves exactly once for an executed request and never for another:  *)
(* not when the recovery service ends an execution whose thread is only     *)
(* slow, nor when a failed one is reported twice.                           *)
MovesMoneyOnce ==
    \A r \in Reqs : tx[r] = IF Status(r) = "executed" THEN 1 ELSE 0

(* Three people: whoever asks does not approve, and neither of them         *)
(* executes.                                                                *)
SegregationOfDuties ==
    \A r \in Reqs : Status(r) \in {"executing", "executed", "failed"} =>
        /\ req[r].requested_by \in Submitters
        /\ req[r].approved_by \in Reviewers \ {req[r].requested_by}
        /\ req[r].executed_by \in Executors \ {req[r].requested_by, req[r].approved_by}

=============================================================================

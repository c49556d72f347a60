---------------------------- MODULE WithdrawalOtp ----------------------------
(***************************************************************************)
(* The one-time codes that gate a withdrawal or a new payout address       *)
(* (simulator/withdrawal_otp.py), the two-step views that use them         *)
(* (withdraw_view, withdraw_otp_verify_view and the pair for addresses in  *)
(* simulator/views.py) and the life of a verified address                  *)
(* (simulator/verified_wallets.py).                                        *)
(*                                                                         *)
(* A web request of the second step is a process: it loads the challenge   *)
(* without a lock, checks the code in one transaction and creates the      *)
(* object in another, so a second tab, a resend, the clock or a crash can  *)
(* fall between them.                                                      *)
(***************************************************************************)
EXTENDS Naturals

CONSTANTS
    Users,
    Routes,          \* (asset, network) pairs
    Requests,        \* web requests to the OTP views
    Amounts,         \* manual amounts the form accepts
    MinAmount,       \* the $20 floor
    InitialBalance,  \* Users -> Nat
    MaxBalance,      \* bound on a wallet
    MaxChallenges,   \* bound on WithdrawalEmailOTPChallenge rows
    MaxSends,        \* bound on the codes sent for one challenge
    MaxAttempts      \* WITHDRAWAL_OTP_MAX_ATTEMPTS

ASSUME OtpConstants ==
    /\ MinAmount \in Nat \ {0}
    /\ MaxBalance \in Nat
    /\ Amounts \subseteq {n \in Nat : n >= MinAmount}
    /\ InitialBalance \in [Users -> 0..MaxBalance]
    /\ MaxChallenges \in Nat /\ MaxSends \in Nat \ {0} /\ MaxAttempts \in Nat \ {0}

Challenges == 1..MaxChallenges
NoChallenge == 0
WithdrawAll == 0
Purposes == {"WITHDRAWAL", "ADDRESS_CHANGE"}

VARIABLES
    st,        \* challenge status, "none" while there is no row
    attempts,  \* wrong codes so far
    late,      \* expires_at has passed
    code,      \* number of codes sent; only the last one matches code_hash
    payload,   \* the frozen payload of the row
    session,   \* the challenge id in the user's session, for each purpose
    made,      \* the WithdrawalRequest of the challenge: still pending, or past it
    vw,        \* the VerifiedWithdrawalWallet of the challenge
    balance,   \* Wallet.available_balance
    req        \* program counter of each web request

rows == <<st, attempts, late, code, payload>>
vars == <<rows, session, made, vw, balance, req>>

NoPayload ==
    [user |-> "", purpose |-> "", amount |-> WithdrawAll, dest |-> NoChallenge, route |-> ""]

IdleReq == [pc |-> "idle", ch |-> NoChallenge, code |-> 0, ask |-> NoPayload]

Init ==
    /\ st = [c \in Challenges |-> "none"]
    /\ attempts = [c \in Challenges |-> 0]
    /\ late = [c \in Challenges |-> FALSE]
    /\ code = [c \in Challenges |-> 0]
    /\ payload = [c \in Challenges |-> NoPayload]
    /\ session = [u \in Users |-> [p \in Purposes |-> NoChallenge]]
    /\ made = [c \in Challenges |-> "none"]
    /\ vw = [c \in Challenges |-> "none"]
    /\ balance = InitialBalance
    /\ req = [t \in Requests |-> IdleReq]

UserOf(c) == payload[c].user
Owned(u) == {c \in Challenges : st[c] # "none" /\ UserOf(c) = u}

(* The addresses of u on route r in one of the given states.                *)
Wallets(u, r, states) ==
    {c \in Challenges : vw[c] \in states /\ UserOf(c) = u /\ payload[c].route = r}

GoOn(t, pc, c, k) ==
    req' = [req EXCEPT ![t] = [pc |-> pc, ch |-> c, code |-> k, ask |-> NoPayload]]
Goto(t, pc) == GoOn(t, pc, req[t].ch, req[t].code)
Done(t) == req' = [req EXCEPT ![t] = IdleReq]

-----------------------------------------------------------------------------
(* First step: a challenge with its payload.                                *)

(* Operators named M_... are mutants: a defect the definition after them    *)
(* could have had, which some property of this module catches.              *)
NON_TERMINAL_STATUSES == {"pending", "verified"}

(* expire_if_stale(): PENDING rows past their time, and no other.           *)
Normalized(cs) ==
    [c \in Challenges |-> IF c \in cs /\ st[c] = "pending" /\ late[c] THEN "expired" ELSE st[c]]

(* create_challenge(), under the lock of the user's wallet row; it raises   *)
(* ActiveChallengeExists, and changes nothing, while one is unresolved.     *)
create_challenge(u, p, data) ==
    \E c \in Challenges :
       /\ st[c] = "none" /\ \A d \in 1..(c - 1) : st[d] # "none"
       /\ \A d \in Owned(u) : Normalized(Owned(u))[d] \notin NON_TERMINAL_STATUSES
       /\ st' = [Normalized(Owned(u)) EXCEPT ![c] = "pending"]
       /\ code' = [code EXCEPT ![c] = 1]
       /\ payload' = [payload EXCEPT ![c] = data]
       /\ session' = [session EXCEPT ![u][p] = c]
       /\ UNCHANGED <<attempts, late>>

HasPendingWithdrawal(u) == \E c \in Owned(u) : made[c] = "pending"

(* What _try_activate does to the addresses of S, each of which is due: the *)
(* address in use on the route is deactivated, then the new one is active.  *)
M_Activated_OldLast(S) ==
    [c \in Challenges |->
       IF \E d \in S : /\ Wallets(UserOf(d), payload[d].route, {"active"}) # {}
                      /\ c \in Wallets(UserOf(d), payload[d].route, {"active", "due"})
       THEN "deactivated" ELSE IF c \in S THEN "active" ELSE vw[c]]

Activated(S) ==
    [c \in Challenges |->
       IF c \in S THEN "active"
       ELSE IF \E d \in S : c \in Wallets(UserOf(d), payload[d].route, {"active"})
            THEN "deactivated" ELSE vw[c]]

(* withdraw_view, up to create_challenge().  Building the form activates    *)
(* the due addresses of the user; the checks of balance and of a pending    *)
(* row are advisory, without a lock.                                        *)
AskWithdrawal(t, u, amount, v) ==
    /\ req[t].pc = "idle"
    /\ v \in Owned(u)
    /\ vw' = Activated({w \in Owned(u) : vw[w] = "due"})
    /\ vw'[v] = "active"
    /\ balance[u] >= IF amount = WithdrawAll THEN MinAmount ELSE amount
    /\ ~HasPendingWithdrawal(u)
    /\ req' = [req EXCEPT ![t] =
          [pc |-> "create", ch |-> NoChallenge, code |-> 0,
           ask |-> [user |-> u, purpose |-> "WITHDRAWAL", amount |-> amount, dest |-> v,
                    route |-> payload[v].route]]]
    /\ UNCHANGED <<rows, session, made, balance>>

CreateChallenge(t) ==
    LET u == req[t].ask.user IN
    /\ req[t].pc = "create"
    /\ \/ create_challenge(u, "WITHDRAWAL", req[t].ask)
       \/ /\ \E d \in Owned(u) : Normalized(Owned(u))[d] \in NON_TERMINAL_STATUSES
          /\ UNCHANGED <<rows, session>>
    /\ Done(t)
    /\ UNCHANGED <<made, vw, balance>>

(* withdrawal_wallet_register_view.                                         *)
AskAddress(u, r) ==
    /\ create_challenge(u, "ADDRESS_CHANGE",
          [user |-> u, purpose |-> "ADDRESS_CHANGE", amount |-> WithdrawAll,
           dest |-> NoChallenge, route |-> r])
    /\ UNCHANGED <<made, vw, balance, req>>

-----------------------------------------------------------------------------
(* Second step: a request that carries a code, a resend, or just a visit.   *)

(* The view reads the challenge of the session and normalizes it.  What it  *)
(* does next follows from the status it has read.  The code typed is the    *)
(* last one sent, which a resend may still outdate, or a wrong one (0).     *)
Load(t, u, p) ==
    LET c == session[u][p] IN
    /\ req[t].pc = "idle"
    /\ c # NoChallenge
    /\ st' = Normalized({c})
    /\ \/ /\ st'[c] \notin NON_TERMINAL_STATUSES
          /\ GoOn(t, "pop", c, 0)
       \/ /\ st'[c] = "verified"
          /\ GoOn(t, "finalize", c, 0)
       \/ /\ st'[c] = "pending"
          /\ \/ GoOn(t, "resend", c, 0)
             \/ \E k \in {0, code[c]} : GoOn(t, "verify", c, k)
    /\ UNCHANGED <<attempts, late, code, payload, session, made, vw, balance>>

(* resend_challenge(): the checks are on the instance read by Load, which   *)
(* is PENDING whatever the row has become; only a row this call flips to    *)
(* EXPIRED, or the resend cooldown, stops it.                               *)
ResendCheck(t) ==
    LET c == req[t].ch IN
    /\ req[t].pc = "resend"
    /\ st' = Normalized({c})
    /\ \/ Done(t)
       \/ /\ ~(st[c] = "pending" /\ late[c])
          /\ code[c] < MaxSends
          /\ Goto(t, "resend_save")
    /\ UNCHANGED <<attempts, late, code, payload, session, made, vw, balance>>

M_ResendSave_AllFields(t) ==
    LET c == req[t].ch IN
    /\ req[t].pc = "resend_save"
    /\ st' = [st EXCEPT ![c] = "pending"]
    /\ code' = [code EXCEPT ![c] = @ + 1]
    /\ late' = [late EXCEPT ![c] = FALSE]
    /\ Done(t)
    /\ UNCHANGED <<attempts, payload, session, made, vw, balance>>

(* Its save() of the code and its expiry, and of no other field: no lock.   *)
ResendSave(t) ==
    LET c == req[t].ch IN
    /\ req[t].pc = "resend_save"
    /\ code' = [code EXCEPT ![c] = @ + 1]
    /\ late' = [late EXCEPT ![c] = FALSE]
    /\ Done(t)
    /\ UNCHANGED <<st, attempts, payload, session, made, vw, balance>>

WrongCode(c) ==
    /\ attempts' = [attempts EXCEPT ![c] = @ + 1]
    /\ st' = [st EXCEPT ![c] = IF attempts'[c] >= MaxAttempts THEN "locked" ELSE @]

(* verify_challenge(): its own transaction, on the locked row.              *)
Verify(t) ==
    LET c == req[t].ch
        open == st[c] = "pending" /\ ~late[c] /\ attempts[c] < MaxAttempts
    IN
    /\ req[t].pc = "verify"
    /\ \/ /\ ~open /\ Done(t)
          /\ st' = [st EXCEPT ![c] = IF @ # "pending" THEN @
                                     ELSE IF late[c] THEN "expired" ELSE "locked"]
          /\ UNCHANGED attempts
       \/ open /\ req[t].code # code[c] /\ Done(t) /\ WrongCode(c)
       \/ open /\ req[t].code = code[c] /\ Goto(t, "finalize")
          /\ st' = [st EXCEPT ![c] = "verified"] /\ UNCHANGED attempts
    /\ UNCHANGED <<late, code, payload, session, made, vw, balance>>

-----------------------------------------------------------------------------
(* _finalize() of the two views, one transaction.  mark_challenge_used()    *)
(* looks at the status this request has in memory, VERIFIED, and not at the *)
(* row, which another request may have used meanwhile.                      *)
AtFinalize(t, p) == req[t].pc = "finalize" /\ payload[req[t].ch].purpose = p

FinalAmount(c) ==
    IF payload[c].amount = WithdrawAll THEN balance[UserOf(c)] ELSE payload[c].amount

M_CanWithdraw_NoOneToOne(c) ==
    /\ ~HasPendingWithdrawal(UserOf(c))
    /\ FinalAmount(c) >= MinAmount /\ FinalAmount(c) <= balance[UserOf(c)]

(* Under the lock of the wallet row: no pending row, the floor, the funds   *)
(* of debit_wallet(), and the OneToOne key from WithdrawalRequest to its    *)
(* challenge.                                                               *)
CanWithdraw(c) ==
    /\ ~HasPendingWithdrawal(UserOf(c))
    /\ FinalAmount(c) >= MinAmount /\ FinalAmount(c) <= balance[UserOf(c)]
    /\ made[c] = "none"

M_FinalizeWithdrawal_NotUsed(t) ==
    LET c == req[t].ch IN
    /\ AtFinalize(t, "WITHDRAWAL") /\ CanWithdraw(c)
    /\ balance' = [balance EXCEPT ![UserOf(c)] = @ - FinalAmount(c)]
    /\ made' = [made EXCEPT ![c] = "pending"]
    /\ Goto(t, "pop")
    /\ UNCHANGED <<rows, session, vw>>

FinalizeWithdrawal(t) ==
    LET c == req[t].ch IN
    /\ AtFinalize(t, "WITHDRAWAL") /\ CanWithdraw(c)
    /\ balance' = [balance EXCEPT ![UserOf(c)] = @ - FinalAmount(c)]
    /\ made' = [made EXCEPT ![c] = "pending"]
    /\ st' = [st EXCEPT ![c] = "used"]
    /\ Goto(t, "pop")
    /\ UNCHANGED <<attempts, late, code, payload, session, vw>>

M_CanRegister_Always(c) == vw[c] = "none"

(* create_pending_wallet(): the constraint vww_one_pending_per_route.  An   *)
(* address whose cooldown is over is pending until it is activated.         *)
CanRegister(c) == Wallets(UserOf(c), payload[c].route, {"cooldown", "due"}) = {}

FinalizeAddress(t) ==
    LET c == req[t].ch IN
    /\ AtFinalize(t, "ADDRESS_CHANGE") /\ CanRegister(c)
    /\ vw' = [vw EXCEPT ![c] = "cooldown"]
    /\ st' = [st EXCEPT ![c] = "used"]
    /\ Goto(t, "pop")
    /\ UNCHANGED <<attempts, late, code, payload, session, made, balance>>

(* The transaction is rolled back and the page shows the reason; the        *)
(* challenge and the session keep their state.                              *)
FinalizeRefused(t) ==
    /\ \/ AtFinalize(t, "WITHDRAWAL") /\ ~CanWithdraw(req[t].ch)
       \/ AtFinalize(t, "ADDRESS_CHANGE") /\ ~CanRegister(req[t].ch)
    /\ Done(t)
    /\ UNCHANGED <<rows, session, made, vw, balance>>

PopSession(t) ==
    /\ req[t].pc = "pop"
    /\ session' = [session EXCEPT ![UserOf(req[t].ch)][payload[req[t].ch].purpose] = NoChallenge]
    /\ Done(t)
    /\ UNCHANGED <<rows, made, vw, balance>>

(* The worker is killed, or a database error ends the request.              *)
RequestDies(t) ==
    /\ req[t].pc # "idle" /\ Done(t)
    /\ UNCHANGED <<rows, session, made, vw, balance>>

-----------------------------------------------------------------------------
(* The clock, the payout rail, the other users of the wallet, the sweep.    *)

(* Nothing reads the expiry of a row that is not PENDING.                   *)
ClockPasses(c) ==
    /\ st[c] = "pending" /\ ~late[c]
    /\ late' = [late EXCEPT ![c] = TRUE]
    /\ UNCHANGED <<st, attempts, code, payload, session, made, vw, balance, req>>

(* The user logs out, or comes back with another browser.                   *)
SessionEnds(u) ==
    /\ session' = [session EXCEPT ![u] = [p \in Purposes |-> NoChallenge]]
    /\ UNCHANGED <<rows, made, vw, balance, req>>

(* The withdrawal is claimed, paid, rejected or failed: module Payout.      *)
WithdrawalLeavesPending(c) ==
    /\ made[c] = "pending"
    /\ made' = [made EXCEPT ![c] = "left"]
    /\ UNCHANGED <<rows, session, vw, balance, req>>

(* A deposit, a transfer, a refund: any locked change of the wallet.        *)
WalletMoves(u) ==
    /\ \E b \in 0..MaxBalance : balance' = [balance EXCEPT ![u] = b]
    /\ UNCHANGED <<rows, session, made, vw, req>>

(* A cooldown takes hours and a request seconds: none outlives it.          *)
CooldownEnds(v) ==
    /\ vw[v] = "cooldown" /\ \A t \in Requests : req[t].ch # v
    /\ vw' = [vw EXCEPT ![v] = "due"]
    /\ UNCHANGED <<rows, session, made, balance, req>>

M_TryActivate_FirstOnly(v) ==
    /\ vw[v] = "due"
    /\ Wallets(UserOf(v), payload[v].route, {"active"}) = {}
    /\ vw' = Activated({v})
    /\ UNCHANGED <<rows, session, made, balance, req>>

(* _try_activate(), from a page that lists addresses or from the sweep.     *)
TryActivate(v) ==
    /\ vw[v] = "due"
    /\ vw' = Activated({v})
    /\ UNCHANGED <<rows, session, made, balance, req>>

UserStep ==
    \E u \in Users :
       \/ \E t \in Requests, amount \in Amounts \union {WithdrawAll}, v \in Challenges :
             AskWithdrawal(t, u, amount, v)
       \/ \E r \in Routes : AskAddress(u, r)
       \/ \E t \in Requests, p \in Purposes : Load(t, u, p)
       \/ SessionEnds(u)
       \/ WalletMoves(u)

RequestStep(t) ==
    \/ CreateChallenge(t) \/ ResendCheck(t) \/ ResendSave(t) \/ Verify(t)
    \/ FinalizeWithdrawal(t) \/ FinalizeAddress(t) \/ FinalizeRefused(t) \/ PopSession(t)

Next ==
    \/ UserStep
    \/ \E t \in Requests : RequestStep(t) \/ RequestDies(t)
    \/ \E c \in Challenges :
          ClockPasses(c) \/ WithdrawalLeavesPending(c) \/ CooldownEnds(c) \/ TryActivate(c)

Spec == Init /\ [][Next]_vars

(* A request that no one kills goes on, time passes, and the sweep of       *)
(* tasks.py runs every 15 minutes.  Nothing is asked of the users.          *)
FairSpec ==
    /\ Spec
    /\ \A t \in Requests : WF_vars(RequestStep(t))
    /\ \A c \in Challenges : WF_vars(ClockPasses(c)) /\ WF_vars(TryActivate(c))

-----------------------------------------------------------------------------
(* The types, and the wallet the withdrawals debit never overdrawn.         *)
TypeOK ==
    /\ st \in [Challenges -> {"none", "pending", "verified", "used", "expired", "locked"}]
    /\ attempts \in [Challenges -> Nat]
    /\ late \in [Challenges -> BOOLEAN]
    /\ code \in [Challenges -> Nat]
    /\ session \in [Users -> [Purposes -> Challenges \union {NoChallenge}]]
    /\ made \in [Challenges -> {"none", "pending", "left"}]
    /\ vw \in [Challenges -> {"none", "cooldown", "due", "active", "deactivated"}]
    /\ balance \in [Users -> 0..MaxBalance]
    /\ \A t \in Requests :
          /\ req[t].pc \in {"idle", "create", "resend", "resend_save", "verify", "finalize", "pop"}
          /\ req[t].ch \in Challenges \union {NoChallenge} /\ req[t].code \in Nat

(* The constraint wotp_one_active_per_user: create_challenge keeps it       *)
(* without ever meeting the IntegrityError it catches.                      *)
OneActiveChallenge ==
    \A u \in Users : \A c, d \in Owned(u) :
       st[c] \in {"pending", "verified"} /\ st[d] \in {"pending", "verified"} => c = d

(* A challenge is USED exactly when it has produced its withdrawal or its   *)
(* address (mark_challenge_used, "exactly once, in the same atomic block"). *)
UsedExactlyOnce ==
    \A c \in Challenges : st[c] = "used" <=> (made[c] # "none" \/ vw[c] # "none")

(* The limit of wrong codes counts over every tab and every resend of a     *)
(* challenge, and the challenge that reaches it is locked (verify_challenge). *)
LockedAtTheLimit ==
    \A c \in Challenges :
       attempts[c] <= MaxAttempts /\ (attempts[c] = MaxAttempts => st[c] = "locked")

(* One withdrawal of a user awaits its payout at a time (_finalize).        *)
OnePendingWithdrawal ==
    \A u \in Users : \A c, d \in Owned(u) :
       made[c] = "pending" /\ made[d] = "pending" => c = d

(* vww_one_active_per_route and vww_one_pending_per_route: the two writers  *)
(* of verified_wallets.py never leave two addresses in use, or two waiting. *)
OneActiveWallet ==
    \A u \in Users, r \in Routes : \A c, d \in Wallets(u, r, {"active"}) : c = d

OnePendingAddress ==
    \A u \in Users, r \in Routes : \A c, d \in Wallets(u, r, {"cooldown", "due"}) : c = d

(* All the "at most one" rules at once, of two tabs, a resend, an address   *)
(* change and a sweep that all run at the same time.                        *)
OneOfEach ==
    /\ OneActiveChallenge
    /\ OnePendingWithdrawal
    /\ OneActiveWallet
    /\ OnePendingAddress

(* No resend, and no retry of an old tab, brings a USED, EXPIRED or LOCKED  *)
(* challenge back (resend_challenge saves the code and its expiry only).    *)
NeverRevived ==
    [][\A c \in Challenges :
          st[c] \in {"used", "expired", "locked"} => st'[c] = st[c]]_vars

(* resend_challenge: "a resend must not become a brute-force reset lever".  *)
AttemptsNeverReset == [][\A c \in Challenges : attempts'[c] >= attempts[c]]_vars

(* Money leaves a wallet for a challenge once, and from VERIFIED, though    *)
(* each of the two tabs that finalize it holds it in memory as VERIFIED.    *)
CreatedOnlyWhenVerified ==
    [][\A c \in Challenges : made[c] # "pending" /\ made'[c] = "pending" => st[c] = "verified"]_vars

(* Replacing the address of a route leaves the user one to withdraw to      *)
(* (_try_activate deactivates and activates in one transaction).            *)
KeepsAnActiveWallet ==
    [][\A u \in Users, r \in Routes :
          Wallets(u, r, {"active"}) # {} => Wallets(u, r, {"active"})' # {}]_vars

(* An address whose cooldown is over is put in use, whether or not its user *)
(* comes back (sweep_verified_wallets_task).                                *)
DueWalletsActivate ==
    \A c \in Challenges : (vw[c] = "due") ~> (vw[c] = "active")
=============================================================================

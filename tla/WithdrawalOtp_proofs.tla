-------------------------- MODULE WithdrawalOtp_proofs --------------------------
(***************************************************************************)
(* The safety of the one-time codes and of the verified addresses, for any *)
(* users, routes, requests, challenges and limits.                         *)
(***************************************************************************)
EXTENDS WithdrawalOtp, TLAPS

Status == {"none", "pending", "verified", "used", "expired", "locked"}
Open == {"pending", "verified"}
WalletStatus == {"none", "cooldown", "due", "active", "deactivated"}
ReqPc == {"idle", "create", "resend", "resend_save", "verify", "finalize", "pop"}

Payloads ==
    [user : Users, purpose : Purposes, amount : Amounts \union {WithdrawAll},
     dest : Challenges \union {NoChallenge}, route : Routes]

ReqType ==
    [pc : ReqPc, ch : Challenges \union {NoChallenge}, code : Nat,
     ask : Payloads \union {NoPayload}]

-----------------------------------------------------------------------------
(* The inductive invariant.                                                 *)

TypeInv ==
    /\ st \in [Challenges -> Status]
    /\ attempts \in [Challenges -> Nat]
    /\ late \in [Challenges -> BOOLEAN]
    /\ code \in [Challenges -> Nat]
    /\ DOMAIN payload = Challenges
    /\ session \in [Users -> [Purposes -> Challenges \union {NoChallenge}]]
    /\ made \in [Challenges -> {"none", "pending", "left"}]
    /\ vw \in [Challenges -> WalletStatus]
    /\ balance \in [Users -> 0..MaxBalance]
    /\ req \in [Requests -> ReqType]

(* A row has its payload, an absent row nothing; a challenge produces what  *)
(* its purpose says and no other thing.                                     *)
RowInv(c) ==
    /\ IF st[c] = "none" THEN attempts[c] = 0 ELSE payload[c] \in Payloads
    /\ made[c] # "none" => payload[c].purpose = "WITHDRAWAL"
    /\ vw[c] # "none" => payload[c].purpose = "ADDRESS_CHANGE"

RowsInv == \A c \in Challenges : RowInv(c)

SessionInv == \A u \in Users, p \in Purposes : session[u][p] # NoChallenge => st[session[u][p]] # "none"

(* A request between its transactions holds a row; one that finalizes, a    *)
(* row that is VERIFIED or that another request has used since.             *)
RequestInv(t) ==
    /\ req[t].pc = "create" => req[t].ask \in Payloads
    /\ req[t].pc \notin {"idle", "create"} => req[t].ch \in Challenges /\ st[req[t].ch] # "none"
    /\ req[t].pc = "finalize" =>
          st[req[t].ch] \in {"verified", "used"} /\ vw[req[t].ch] \in {"none", "cooldown"}

RequestsInv == \A t \in Requests : RequestInv(t)

(* What is said of challenges and of the objects made from them, and the    *)
(* part of the state it is said of.                                         *)
Safety ==
    /\ OneActiveChallenge /\ UsedExactlyOnce
    /\ OnePendingWithdrawal /\ OneActiveWallet /\ OnePendingAddress

Frame == <<st, payload, made, vw>>

IInv ==
    /\ TypeInv /\ RowsInv /\ SessionInv /\ RequestsInv
    /\ LockedAtTheLimit /\ Safety

-----------------------------------------------------------------------------
(* Steps that leave challenges, withdrawals and addresses alone.            *)
LEMMA FrameKeepsSafety == ASSUME Safety, UNCHANGED Frame PROVE Safety'
  BY DEF Safety, Frame, OneActiveChallenge, UsedExactlyOnce, OnePendingWithdrawal,
     OneActiveWallet, OnePendingAddress, Wallets, Owned, UserOf

(* A step that only closes open challenges, or verifies a pending one, keeps *)
(* the number of open challenges and touches no object.                     *)
LEMMA StatusKeepsSafety ==
  ASSUME TypeInv, Safety, st' \in [Challenges -> Status],
         UNCHANGED <<payload, made, vw>>,
         \A c \in Challenges :
            /\ st'[c] # st[c] => st[c] \in Open /\ st'[c] \notin {"none", "used"}
            /\ st'[c] \in Open => st[c] \in Open
  PROVE  Safety'
<1>1. \A u \in Users : Owned(u)' = Owned(u)
  BY DEF Owned, UserOf, Open, TypeInv, Status
<1>2. OneActiveChallenge'
  BY <1>1 DEF OneActiveChallenge, Safety, Owned, Open
<1>3. UsedExactlyOnce'
  BY DEF UsedExactlyOnce, Safety, Open
<1>4. OnePendingWithdrawal'
  BY <1>1 DEF OnePendingWithdrawal, Safety, Owned
<1>5. OneActiveWallet' /\ OnePendingAddress'
  BY DEF OneActiveWallet, OnePendingAddress, Safety, Wallets, UserOf
<1> QED BY <1>2, <1>3, <1>4, <1>5 DEF Safety

(* expire_if_stale() is such a step.                                        *)
LEMMA NormalizedType ==
  ASSUME TypeInv, NEW cs
  PROVE  /\ Normalized(cs) \in [Challenges -> Status]
         /\ \A c \in Challenges :
               \/ Normalized(cs)[c] = st[c]
               \/ c \in cs /\ st[c] = "pending" /\ Normalized(cs)[c] = "expired"
  BY DEF TypeInv, Normalized, Status

(* What _try_activate does keeps one address in use and one waiting, and an *)
(* address in use where there was one.                                    *)
LEMMA ActivatedKeeps ==
  ASSUME TypeInv, OneActiveWallet, OnePendingAddress,
         NEW S \in SUBSET {c \in Challenges : vw[c] = "due"}, vw' = Activated(S),
         UNCHANGED payload
  PROVE  /\ vw' \in [Challenges -> WalletStatus]
         /\ \A c \in Challenges : vw'[c] = vw[c] \/ (vw[c] \in {"due", "active"} /\ vw'[c] # "none")
         /\ OneActiveWallet' /\ OnePendingAddress'
         /\ \A u \in Users, r \in Routes :
               Wallets(u, r, {"active"}) # {} => Wallets(u, r, {"active"})' # {}
<1>1. vw' \in [Challenges -> WalletStatus]
  BY DEF Activated, TypeInv, WalletStatus
<1>2. \A c \in Challenges : vw'[c] = vw[c] \/ (vw[c] \in {"due", "active"} /\ vw'[c] # "none")
  BY DEF Activated, Wallets
<1>4. ASSUME NEW u \in Users, NEW r \in Routes,
             NEW c \in Wallets(u, r, {"active"})', NEW d \in Wallets(u, r, {"active"})'
      PROVE  c = d
  <2>1. /\ c \in Challenges /\ vw'[c] = "active" /\ payload[c].user = u /\ payload[c].route = r
        /\ d \in Challenges /\ vw'[d] = "active" /\ payload[d].user = u /\ payload[d].route = r
    BY DEF Wallets, UserOf
  <2>2. CASE c \in S /\ d \in S
    BY <2>1, <2>2 DEF OnePendingAddress, Wallets, UserOf
  <2>3. CASE c \in S /\ d \notin S
    BY <2>1, <2>3 DEF Activated, Wallets, UserOf
  <2>4. CASE c \notin S /\ d \in S
    BY <2>1, <2>4 DEF Activated, Wallets, UserOf
  <2>5. CASE c \notin S /\ d \notin S
    <3>1. vw[c] = "active" /\ vw[d] = "active"
      BY <2>1, <2>5 DEF Activated
    <3> QED BY <3>1, <2>1 DEF OneActiveWallet, Wallets, UserOf
  <2> QED BY <2>2, <2>3, <2>4, <2>5
<1>5. ASSUME NEW u \in Users, NEW r \in Routes
      PROVE  Wallets(u, r, {"cooldown", "due"})' \subseteq Wallets(u, r, {"cooldown", "due"})
  <2>1. \A c \in Challenges : vw'[c] \in {"cooldown", "due"} => vw[c] = vw'[c]
    BY DEF Activated
  <2> QED BY <2>1 DEF Wallets, UserOf
<1>6. ASSUME NEW u \in Users, NEW r \in Routes, NEW c \in Wallets(u, r, {"active"})
      PROVE  Wallets(u, r, {"active"})' # {}
  <2>1. c \in Challenges /\ vw[c] = "active" /\ payload[c].user = u /\ payload[c].route = r
    BY DEF Wallets, UserOf
  <2>2. CASE vw'[c] = "active"
    BY <2>1, <2>2 DEF Wallets, UserOf
  <2>3. CASE vw'[c] # "active"
    <3>1. PICK d \in S : c \in Wallets(UserOf(d), payload[d].route, {"active"})
      BY <2>1, <2>3 DEF Activated
    <3>2. d \in Challenges /\ payload[d].user = u /\ payload[d].route = r /\ vw'[d] = "active"
      BY <3>1, <2>1 DEF Activated, Wallets, UserOf
    <3> QED BY <3>2 DEF Wallets, UserOf
  <2> QED BY <2>2, <2>3
<1>7. OneActiveWallet'
  BY <1>4 DEF OneActiveWallet
<1>8. OnePendingAddress'
  BY <1>5 DEF OnePendingAddress
<1> QED BY <1>1, <1>2, <1>6, <1>7, <1>8

-----------------------------------------------------------------------------
(* The first step of both views.                                            *)
LEMMA CreateKeeps ==
  ASSUME IInv, NEW u \in Users, NEW p \in Purposes, NEW data \in Payloads, data.user = u,
         create_challenge(u, p, data), UNCHANGED <<made, vw, balance>>,
         req' \in [Requests -> ReqType], \A t \in Requests : req'[t] \in {req[t], IdleReq}
  PROVE  IInv'
<1>1. PICK c \in Challenges :
        /\ st[c] = "none"
        /\ \A d \in Owned(u) : Normalized(Owned(u))[d] \notin NON_TERMINAL_STATUSES
        /\ st' = [Normalized(Owned(u)) EXCEPT ![c] = "pending"]
        /\ code' = [code EXCEPT ![c] = 1]
        /\ payload' = [payload EXCEPT ![c] = data]
        /\ session' = [session EXCEPT ![u][p] = c]
        /\ UNCHANGED <<attempts, late>>
  BY DEF create_challenge
<1>2. made[c] = "none" /\ vw[c] = "none"
  BY <1>1 DEF IInv, Safety, UsedExactlyOnce, TypeInv
<1>3. /\ \A d \in Challenges \ {c} : payload'[d] = payload[d]
      /\ payload'[c] = data /\ DOMAIN payload' = Challenges
  BY <1>1 DEF IInv, TypeInv
<1>4. /\ st' \in [Challenges -> Status] /\ st'[c] = "pending"
      /\ \A d \in Challenges \ {c} :
            \/ st'[d] = st[d]
            \/ d \in Owned(u) /\ st[d] = "pending" /\ st'[d] = "expired"
      /\ \A d \in Owned(u) : st'[d] \notin Open
  <2>1. \A d \in Owned(u) : d \in Challenges /\ d # c
    BY <1>1 DEF Owned
  <2>2. /\ Normalized(Owned(u)) \in [Challenges -> Status]
        /\ \A d \in Challenges :
              \/ Normalized(Owned(u))[d] = st[d]
              \/ d \in Owned(u) /\ st[d] = "pending" /\ Normalized(Owned(u))[d] = "expired"
    BY NormalizedType DEF IInv
  <2> QED BY <2>1, <2>2, <1>1 DEF Status, NON_TERMINAL_STATUSES, Open
<1>5. TypeInv'
  <2>1. session' \in [Users -> [Purposes -> Challenges \union {NoChallenge}]]
    BY <1>1 DEF IInv, TypeInv
  <2>2. code' \in [Challenges -> Nat]
    BY <1>1 DEF IInv, TypeInv
  <2> QED BY <2>1, <2>2, <1>1, <1>3, <1>4 DEF IInv, TypeInv
<1>6. RowsInv'
  <2>1. ASSUME NEW d \in Challenges PROVE RowInv(d)'
    BY <1>1, <1>2, <1>3, <1>4 DEF IInv, RowsInv, RowInv, TypeInv
  <2> QED BY <2>1 DEF RowsInv
<1>7. SessionInv'
  <2>1. ASSUME NEW w \in Users, NEW q \in Purposes
        PROVE  session'[w][q] \in {session[w][q], c}
    BY <1>1 DEF IInv, TypeInv
  <2> QED BY <2>1, <1>4 DEF IInv, SessionInv, TypeInv
<1>8. RequestsInv'
  <2>1. ASSUME NEW t \in Requests PROVE RequestInv(t)'
    <3>1. CASE req'[t] = IdleReq
      BY <3>1 DEF RequestInv, IdleReq
    <3>2. CASE req'[t] = req[t]
      BY <3>2, <1>1, <1>4 DEF IInv, RequestsInv, RequestInv
    <3> QED BY <3>1, <3>2
  <2> QED BY <2>1 DEF RequestsInv
<1>9. OneActiveChallenge'
  <2>1. ASSUME NEW w \in Users, NEW d \in Owned(w)', NEW e \in Owned(w)',
               st'[d] \in Open, st'[e] \in Open
        PROVE  d = e
    <3>1. CASE w = u
      BY <3>1, <2>1, <1>3, <1>4 DEF Owned, UserOf, Open
    <3>2. CASE w # u
      BY <3>2, <2>1, <1>3, <1>4 DEF Owned, UserOf, Open, IInv, Safety, OneActiveChallenge
    <3> QED BY <3>1, <3>2
  <2> QED BY <2>1 DEF OneActiveChallenge, Open
<1>10. UsedExactlyOnce'
  BY <1>1, <1>2, <1>4 DEF IInv, Safety, UsedExactlyOnce
<1>11. LockedAtTheLimit'
  BY <1>1, <1>4, OtpConstants DEF IInv, LockedAtTheLimit, RowsInv, RowInv
<1>12. OnePendingWithdrawal'
  BY <1>1, <1>2, <1>3, <1>4 DEF IInv, Safety, OnePendingWithdrawal, Owned, UserOf
<1>13. OneActiveWallet' /\ OnePendingAddress'
  BY <1>2, <1>3 DEF IInv, Safety, OneActiveWallet, OnePendingAddress, Wallets, UserOf
<1> QED BY <1>5, <1>6, <1>7, <1>8, <1>9, <1>10, <1>11, <1>12, <1>13 DEF IInv, Safety

-----------------------------------------------------------------------------
(* Steps of a request that create nothing.                                  *)
LEMMA GoOnType ==
  ASSUME TypeInv, NEW t \in Requests, NEW pc \in ReqPc, NEW c \in Challenges, NEW k \in Nat,
         GoOn(t, pc, c, k)
  PROVE  /\ req' \in [Requests -> ReqType]
         /\ \A s \in Requests \ {t} : req'[s] = req[s]
         /\ req'[t].pc = pc /\ req'[t].ch = c
  BY DEF GoOn, TypeInv, ReqType

LEMMA DoneType ==
  ASSUME TypeInv, NEW t \in Requests, Done(t)
  PROVE  /\ req' \in [Requests -> ReqType]
         /\ \A s \in Requests \ {t} : req'[s] = req[s]
         /\ req'[t] = IdleReq /\ req'[t].pc = "idle" /\ RequestInv(t)'
  BY DEF Done, TypeInv, ReqType, IdleReq, ReqPc, RequestInv

(* A step that at most ends or verifies PENDING challenges, forgets session *)
(* keys, and leaves the objects alone: what is left to show of it.          *)
LEMMA StatusStep ==
  ASSUME IInv, TypeInv', LockedAtTheLimit', UNCHANGED <<payload, made, vw>>,
         \A c \in Challenges : st'[c] # st[c] =>
            st[c] = "pending" /\ st'[c] \notin {"none", "used", "pending"},
         \A c \in Challenges : attempts'[c] # attempts[c] => st[c] # "none",
         \A u \in Users, p \in Purposes : session'[u][p] \in {session[u][p], NoChallenge},
         \A s \in Requests : req'[s] = req[s] \/ RequestInv(s)'
  PROVE  IInv'
<1>1. RowsInv'
  BY DEF IInv, RowsInv, RowInv
<1>2. SessionInv'
  BY DEF IInv, SessionInv, TypeInv
<1>3. RequestsInv'
  <2>1. ASSUME NEW s \in Requests, req'[s] = req[s] PROVE RequestInv(s)'
    BY <2>1 DEF IInv, RequestsInv, RequestInv
  <2> QED BY <2>1 DEF RequestsInv
<1>4. Safety'
  BY StatusKeepsSafety DEF IInv, TypeInv, Open
<1> QED BY <1>1, <1>2, <1>3, <1>4 DEF IInv

(* The limit of wrong codes is not at stake when none is typed.             *)
LEMMA LimitKept ==
  ASSUME IInv, UNCHANGED attempts, \A c \in Challenges : st'[c] # st[c] => st[c] = "pending"
  PROVE  LockedAtTheLimit'
  BY DEF IInv, LockedAtTheLimit

LEMMA LoadKeeps ==
  ASSUME IInv, NEW t \in Requests, NEW u \in Users, NEW p \in Purposes, Load(t, u, p)
  PROVE  IInv'
<1> DEFINE c == session[u][p]
<1>1. c \in Challenges /\ st[c] # "none"
  BY DEF Load, IInv, TypeInv, SessionInv
<1>2. /\ st' \in [Challenges -> Status]
      /\ \A d \in Challenges : st'[d] = st[d] \/ (st[d] = "pending" /\ st'[d] = "expired")
  BY NormalizedType DEF Load, IInv
<1>3. /\ req' \in [Requests -> ReqType]
      /\ \A s \in Requests \ {t} : req'[s] = req[s]
      /\ req'[t].ch = c /\ req'[t].pc \in {"pop", "finalize", "resend", "verify"}
      /\ req'[t].pc = "finalize" => st'[c] = "verified"
  <2> HIDE DEF c
  <2>1. \/ GoOn(t, "pop", c, 0)
        \/ st'[c] = "verified" /\ GoOn(t, "finalize", c, 0)
        \/ GoOn(t, "resend", c, 0)
        \/ \E k \in {0, code[c]} : GoOn(t, "verify", c, k)
    BY DEF Load, c
  <2>2. TypeInv /\ code[c] \in Nat
    BY <1>1 DEF IInv, TypeInv
  <2>3. CASE GoOn(t, "pop", c, 0)
    BY <2>2, <2>3, <1>1, GoOnType DEF ReqPc
  <2>4. CASE st'[c] = "verified" /\ GoOn(t, "finalize", c, 0)
    BY <2>2, <2>4, <1>1, GoOnType DEF ReqPc
  <2>5. CASE GoOn(t, "resend", c, 0)
    BY <2>2, <2>5, <1>1, GoOnType DEF ReqPc
  <2>6. ASSUME NEW k \in {0, code[c]}, GoOn(t, "verify", c, k)
        PROVE  /\ req' \in [Requests -> ReqType]
               /\ \A s \in Requests \ {t} : req'[s] = req[s]
               /\ req'[t].ch = c /\ req'[t].pc = "verify"
    BY <2>2, <2>6, <1>1, GoOnType DEF ReqPc
  <2> QED BY <2>1, <2>3, <2>4, <2>5, <2>6
<1>4. TypeInv'
  BY <1>2, <1>3 DEF Load, IInv, TypeInv
<1>5. RequestInv(t)'
  <2>1. st'[c] # "none"
    BY <1>1, <1>2
  <2>2. st'[c] = "verified" => vw'[c] = "none"
    BY <1>1, <1>2 DEF Load, IInv, Safety, UsedExactlyOnce
  <2> QED BY <1>1, <1>3, <2>1, <2>2 DEF RequestInv
<1>6. LockedAtTheLimit'
  BY <1>2, LimitKept DEF Load
<1>7. UNCHANGED <<payload, made, vw, attempts, session>>
  BY DEF Load
<1> QED BY <1>2, <1>3, <1>4, <1>5, <1>6, <1>7, StatusStep

LEMMA ResendKeeps ==
  ASSUME IInv, NEW t \in Requests, ResendCheck(t) \/ ResendSave(t)
  PROVE  IInv'
<1> DEFINE c == req[t].ch
<1>1. c \in Challenges /\ st[c] # "none" /\ req[t].code \in Nat /\ TypeInv
  BY DEF ResendCheck, ResendSave, IInv, RequestsInv, RequestInv, TypeInv, ReqType
<1>2. UNCHANGED <<payload, made, vw, attempts, session, balance>>
  BY DEF ResendCheck, ResendSave
<1>3. CASE ResendCheck(t)
  <2>1. /\ st' \in [Challenges -> Status]
        /\ \A d \in Challenges : st'[d] = st[d] \/ (st[d] = "pending" /\ st'[d] = "expired")
    BY <1>1, <1>3, NormalizedType DEF ResendCheck
  <2>2. /\ req' \in [Requests -> ReqType] /\ RequestInv(t)'
        /\ \A s \in Requests \ {t} : req'[s] = req[s]
    <3>1. CASE Done(t)
      BY <3>1, <1>1, DoneType
    <3>2. CASE Goto(t, "resend_save")
      <4>1. /\ req' \in [Requests -> ReqType] /\ \A s \in Requests \ {t} : req'[s] = req[s]
            /\ req'[t].pc = "resend_save" /\ req'[t].ch = c
        BY <3>2, <1>1, GoOnType DEF Goto, ReqPc
      <4> QED BY <4>1, <2>1, <1>1 DEF RequestInv
    <3> QED BY <3>1, <3>2, <1>3 DEF ResendCheck
  <2>3. TypeInv'
    BY <1>1, <1>2, <1>3, <2>1, <2>2 DEF ResendCheck, TypeInv
  <2>4. LockedAtTheLimit'
    BY <1>2, <2>1, LimitKept
  <2> QED BY <1>2, <2>1, <2>2, <2>3, <2>4, StatusStep
<1>4. CASE ResendSave(t)
  <2>1. /\ req' \in [Requests -> ReqType] /\ RequestInv(t)'
        /\ \A s \in Requests \ {t} : req'[s] = req[s]
    BY <1>1, <1>4, DoneType DEF ResendSave
  <2>2. TypeInv'
    BY <1>1, <1>2, <1>4, <2>1 DEF ResendSave, TypeInv
  <2>3. LockedAtTheLimit'
    BY <1>2, <1>4, LimitKept DEF ResendSave
  <2> QED BY <1>2, <1>4, <2>1, <2>2, <2>3, StatusStep DEF ResendSave
<1> QED BY <1>3, <1>4

LEMMA VerifyKeeps ==
  ASSUME IInv, NEW t \in Requests, Verify(t)
  PROVE  IInv'
<1> DEFINE c == req[t].ch
<1>1. c \in Challenges /\ st[c] # "none" /\ req[t].code \in Nat /\ TypeInv
  BY DEF Verify, IInv, RequestsInv, RequestInv, TypeInv, ReqType
<1>2. UNCHANGED <<late, code, payload, made, vw, session, balance>>
  BY DEF Verify
<1> DEFINE Effect ==
       /\ st' \in [Challenges -> Status] /\ attempts' \in [Challenges -> Nat]
       /\ \A d \in Challenges \ {c} : st'[d] = st[d] /\ attempts'[d] = attempts[d]
       /\ st'[c] = st[c] \/ (st[c] = "pending" /\ st'[c] \in {"expired", "locked", "verified"})
<1>3. Effect
  <2>1. ASSUME st' = [st EXCEPT ![c] = IF @ # "pending" THEN @
                                      ELSE IF late[c] THEN "expired" ELSE "locked"],
               UNCHANGED attempts
        PROVE  Effect
    BY <1>1, <2>1 DEF TypeInv, Status
  <2>2. ASSUME WrongCode(c), st[c] = "pending" PROVE Effect
    BY <1>1, <2>2 DEF WrongCode, TypeInv, Status
  <2>3. ASSUME st' = [st EXCEPT ![c] = "verified"], st[c] = "pending", UNCHANGED attempts PROVE Effect
    BY <1>1, <2>3 DEF TypeInv, Status
  <2> QED BY <2>1, <2>2, <2>3 DEF Verify
<1>4. /\ req' \in [Requests -> ReqType] /\ RequestInv(t)'
      /\ \A s \in Requests \ {t} : req'[s] = req[s]
  <2>1. CASE Done(t)
    BY <2>1, <1>1, DoneType
  <2>2. CASE Goto(t, "finalize") /\ st[c] = "pending" /\ st' = [st EXCEPT ![c] = "verified"]
    <3>1. /\ req' \in [Requests -> ReqType] /\ \A s \in Requests \ {t} : req'[s] = req[s]
          /\ req'[t].pc = "finalize" /\ req'[t].ch = c
      BY <2>2, <1>1, GoOnType DEF Goto, ReqPc
    <3>2. st'[c] = "verified"
      BY <2>2, <1>1 DEF TypeInv
    <3>3. vw'[c] = "none"
      BY <2>2, <1>1, <1>2 DEF IInv, Safety, UsedExactlyOnce
    <3> QED BY <3>1, <3>2, <3>3, <1>1 DEF RequestInv
  <2> QED BY <2>1, <2>2 DEF Verify
<1>5. TypeInv'
  BY <1>1, <1>2, <1>3, <1>4 DEF TypeInv
<1>6. LockedAtTheLimit'
  <2> HIDE DEF c
  <2>1. attempts'[c] <= MaxAttempts /\ (attempts'[c] = MaxAttempts => st'[c] = "locked")
    <3>0. attempts[c] \in Nat /\ attempts[c] <= MaxAttempts /\ (attempts[c] = MaxAttempts => st[c] = "locked")
      BY <1>1 DEF IInv, TypeInv, LockedAtTheLimit
    <3>1. CASE UNCHANGED attempts
      BY <3>0, <3>1, <1>3
    <3>2. CASE WrongCode(c) /\ attempts[c] < MaxAttempts
      BY <3>0, <3>2, <1>1, OtpConstants DEF WrongCode, TypeInv
    <3> QED BY <3>1, <3>2 DEF Verify, c
  <2> QED BY <2>1, <1>3 DEF IInv, LockedAtTheLimit
<1>7. \A d \in Challenges : attempts'[d] # attempts[d] => st[d] # "none"
  BY <1>1, <1>3
<1> QED BY <1>2, <1>3, <1>4, <1>5, <1>6, <1>7, StatusStep

(* Refusals, the end of requests and sessions, and the environment.         *)
LEMMA QuietKeeps ==
  ASSUME IInv, UNCHANGED <<rows, made, vw>>,
         req' \in [Requests -> ReqType], balance' \in [Users -> 0..MaxBalance],
         session' \in [Users -> [Purposes -> Challenges \union {NoChallenge}]],
         \A u \in Users, p \in Purposes : session'[u][p] \in {session[u][p], NoChallenge},
         \A s \in Requests : req'[s] = req[s] \/ RequestInv(s)'
  PROVE  IInv'
<1>1. UNCHANGED <<st, attempts, late, code, payload>>
  BY DEF rows
<1>2. TypeInv'
  BY <1>1 DEF IInv, TypeInv
<1>3. LockedAtTheLimit'
  BY <1>1, LimitKept
<1> QED BY <1>1, <1>2, <1>3, StatusStep

LEMMA EndingsKeep ==
  ASSUME IInv, NEW t \in Requests, FinalizeRefused(t) \/ PopSession(t) \/ RequestDies(t)
  PROVE  IInv'
<1>1. TypeInv
  BY DEF IInv
<1>2. /\ req' \in [Requests -> ReqType]
      /\ \A s \in Requests : req'[s] = req[s] \/ RequestInv(s)'
  BY <1>1, DoneType DEF FinalizeRefused, PopSession, RequestDies
<1>3. UNCHANGED <<rows, made, vw, balance>>
  BY DEF FinalizeRefused, PopSession, RequestDies
<1>4. /\ session' \in [Users -> [Purposes -> Challenges \union {NoChallenge}]]
      /\ \A u \in Users, p \in Purposes : session'[u][p] \in {session[u][p], NoChallenge}
  <2>1. CASE UNCHANGED session
    BY <2>1, <1>1 DEF TypeInv
  <2>2. ASSUME NEW w, NEW q, session' = [session EXCEPT ![w][q] = NoChallenge]
        PROVE  /\ session' \in [Users -> [Purposes -> Challenges \union {NoChallenge}]]
               /\ \A u \in Users, p \in Purposes : session'[u][p] \in {session[u][p], NoChallenge}
    <3>1. ASSUME NEW u \in Users
          PROVE  /\ session'[u] \in [Purposes -> Challenges \union {NoChallenge}]
                 /\ \A p \in Purposes : session'[u][p] \in {session[u][p], NoChallenge}
      BY <2>2, <1>1 DEF TypeInv
    <3>2. session' = [u \in Users |-> session'[u]]
      BY <2>2, <1>1 DEF TypeInv
    <3> QED BY <3>1, <3>2
  <2> QED BY <2>1, <2>2 DEF FinalizeRefused, PopSession, RequestDies
<1> QED BY <1>1, <1>2, <1>3, <1>4, QuietKeeps DEF TypeInv

LEMMA OutsideKeeps ==
  ASSUME IInv, NEW u \in Users, SessionEnds(u) \/ WalletMoves(u)
  PROVE  IInv'
<1>1. UNCHANGED <<rows, made, vw, req>>
  BY DEF SessionEnds, WalletMoves
<1>2. /\ session' \in [Users -> [Purposes -> Challenges \union {NoChallenge}]]
      /\ \A w \in Users, p \in Purposes : session'[w][p] \in {session[w][p], NoChallenge}
  <2>1. CASE UNCHANGED session
    BY <2>1 DEF IInv, TypeInv
  <2>2. CASE SessionEnds(u)
    BY <2>2 DEF SessionEnds, IInv, TypeInv
  <2> QED BY <2>1, <2>2 DEF WalletMoves
<1>3. balance' \in [Users -> 0..MaxBalance]
  BY DEF SessionEnds, WalletMoves, IInv, TypeInv
<1> QED BY <1>1, <1>2, <1>3, QuietKeeps DEF IInv, TypeInv

LEMMA ClockKeeps ==
  ASSUME IInv, NEW c \in Challenges, ClockPasses(c)
  PROVE  IInv'
<1>1. UNCHANGED <<st, attempts, payload, session, made, vw, req>>
  BY DEF ClockPasses
<1>2. TypeInv'
  BY DEF ClockPasses, IInv, TypeInv
<1>3. LockedAtTheLimit'
  BY <1>1, LimitKept
<1> QED BY <1>1, <1>2, <1>3, StatusStep

-----------------------------------------------------------------------------
(* The first steps of the views.                                            *)
LEMMA AskWithdrawalKeeps ==
  ASSUME IInv, NEW t \in Requests, NEW u \in Users, NEW amount \in Amounts \union {WithdrawAll},
         NEW v \in Challenges, AskWithdrawal(t, u, amount, v)
  PROVE  IInv'
<1> DEFINE ask == [user |-> u, purpose |-> "WITHDRAWAL", amount |-> amount, dest |-> v,
                   route |-> payload[v].route]
           S == {w \in Owned(u) : vw[w] = "due"}
<1>1. UNCHANGED <<st, attempts, late, code, payload, session, made, balance>>
  BY DEF AskWithdrawal, rows
<1>2. ask \in Payloads
  BY DEF AskWithdrawal, Owned, IInv, RowsInv, RowInv, Payloads, Purposes
<1>3. /\ vw' \in [Challenges -> WalletStatus]
      /\ \A c \in Challenges : vw'[c] = vw[c] \/ (vw[c] \in {"due", "active"} /\ vw'[c] # "none")
      /\ OneActiveWallet' /\ OnePendingAddress'
  <2>1. S \in SUBSET {c \in Challenges : vw[c] = "due"} /\ vw' = Activated(S)
    BY DEF AskWithdrawal, Owned
  <2>2. TypeInv /\ OneActiveWallet /\ OnePendingAddress
    BY DEF IInv, Safety
  <2> QED BY <2>1, <2>2, <1>1, ActivatedKeeps
<1>4. /\ req' \in [Requests -> ReqType] /\ \A s \in Requests \ {t} : req'[s] = req[s]
      /\ req'[t].pc = "create" /\ req'[t].ask = ask
  BY <1>2 DEF AskWithdrawal, IInv, TypeInv, ReqType, ReqPc
<1>5. TypeInv'
  BY <1>1, <1>3, <1>4 DEF IInv, TypeInv
<1>6. RowsInv' /\ SessionInv' /\ LockedAtTheLimit'
  BY <1>1, <1>3 DEF IInv, RowsInv, RowInv, SessionInv, LockedAtTheLimit
<1>7. RequestsInv'
  <2>1. RequestInv(t)'
    BY <1>2, <1>4 DEF RequestInv
  <2>2. ASSUME NEW s \in Requests \ {t} PROVE RequestInv(s)'
    BY <1>1, <1>3, <1>4 DEF IInv, RequestsInv, RequestInv
  <2> QED BY <2>1, <2>2 DEF RequestsInv
<1>8. OneActiveChallenge' /\ OnePendingWithdrawal'
  BY <1>1 DEF IInv, Safety, OneActiveChallenge, OnePendingWithdrawal, Owned, UserOf
<1>9. UsedExactlyOnce'
  BY <1>1, <1>3 DEF IInv, Safety, UsedExactlyOnce
<1> QED BY <1>3, <1>5, <1>6, <1>7, <1>8, <1>9 DEF IInv, Safety

LEMMA CreateChallengeKeeps ==
  ASSUME IInv, NEW t \in Requests, CreateChallenge(t)
  PROVE  IInv'
<1>1. req[t].ask \in Payloads
  BY DEF CreateChallenge, IInv, RequestsInv, RequestInv
<1>2. req[t].ask.user \in Users /\ TypeInv
  BY <1>1 DEF Payloads, IInv
<1>3. /\ req' \in [Requests -> ReqType] /\ RequestInv(t)'
      /\ \A s \in Requests \ {t} : req'[s] = req[s]
      /\ req'[t] = IdleReq
  BY <1>2, DoneType DEF CreateChallenge
<1>4. UNCHANGED <<made, vw, balance>>
  BY DEF CreateChallenge
<1>5. CASE create_challenge(req[t].ask.user, "WITHDRAWAL", req[t].ask)
  <2> DEFINE data == req[t].ask
             u == data.user
  <2>1. data \in Payloads /\ u \in Users /\ data.user = u /\ "WITHDRAWAL" \in Purposes
    BY <1>1, <1>2 DEF Purposes
  <2>2. create_challenge(u, "WITHDRAWAL", data)
    BY <1>5
  <2>3. \A s \in Requests : req'[s] \in {req[s], IdleReq}
    BY <1>3
  <2> HIDE DEF data, u
  <2> QED BY <2>1, <2>2, <2>3, <1>3, <1>4, CreateKeeps
<1>6. CASE UNCHANGED <<rows, session>>
  BY <1>2, <1>3, <1>4, <1>6, QuietKeeps DEF TypeInv
<1> QED BY <1>5, <1>6 DEF CreateChallenge

LEMMA AskAddressKeeps ==
  ASSUME IInv, NEW u \in Users, NEW r \in Routes, AskAddress(u, r)
  PROVE  IInv'
<1> DEFINE data == [user |-> u, purpose |-> "ADDRESS_CHANGE", amount |-> WithdrawAll,
                    dest |-> NoChallenge, route |-> r]
<1>1. data \in Payloads /\ data.user = u /\ "ADDRESS_CHANGE" \in Purposes
  BY DEF Payloads, Purposes
<1>2. create_challenge(u, "ADDRESS_CHANGE", data) /\ UNCHANGED <<made, vw, balance, req>>
  BY DEF AskAddress
<1>3. req' \in [Requests -> ReqType] /\ \A t \in Requests : req'[t] \in {req[t], IdleReq}
  BY <1>2 DEF IInv, TypeInv
<1> HIDE DEF data
<1> QED BY <1>1, <1>2, <1>3, CreateKeeps

-----------------------------------------------------------------------------
(* _finalize() of the two views.                                            *)

(* Under the lock the row may have been used, but then the OneToOne key or  *)
(* the pending row is found: whoever creates finds the challenge VERIFIED.  *)
LEMMA FinalizesVerified ==
  ASSUME IInv, NEW t \in Requests,
         \/ AtFinalize(t, "WITHDRAWAL") /\ CanWithdraw(req[t].ch)
         \/ AtFinalize(t, "ADDRESS_CHANGE") /\ CanRegister(req[t].ch)
  PROVE  /\ req[t].ch \in Challenges /\ st[req[t].ch] = "verified"
         /\ payload[req[t].ch] \in Payloads
         /\ made[req[t].ch] = "none" /\ vw[req[t].ch] = "none"
<1> DEFINE c == req[t].ch
<1>1. /\ c \in Challenges /\ st[c] \in {"verified", "used"} /\ vw[c] \in {"none", "cooldown"}
      /\ RowInv(c)
  BY DEF AtFinalize, IInv, RequestsInv, RequestInv, RowsInv
<1>2. payload[c] \in Payloads
  BY <1>1 DEF RowInv
<1>3. made[c] = "none" /\ vw[c] = "none"
  <2>1. CASE AtFinalize(t, "WITHDRAWAL") /\ CanWithdraw(c)
    BY <2>1, <1>1 DEF AtFinalize, CanWithdraw, RowInv
  <2>2. CASE AtFinalize(t, "ADDRESS_CHANGE") /\ CanRegister(c)
    <3>1. vw[c] # "cooldown"
      BY <2>2, <1>1 DEF CanRegister, Wallets
    <3> QED BY <2>2, <3>1, <1>1 DEF AtFinalize, RowInv
  <2> QED BY <2>1, <2>2
<1>4. st[c] = "verified"
  BY <1>1, <1>3 DEF IInv, Safety, UsedExactlyOnce
<1> QED BY <1>1, <1>2, <1>3, <1>4

LEMMA FinalizeWithdrawalKeeps ==
  ASSUME IInv, NEW t \in Requests, FinalizeWithdrawal(t)
  PROVE  IInv'
<1> DEFINE c == req[t].ch
<1>1. /\ c \in Challenges /\ st[c] = "verified" /\ payload[c] \in Payloads
      /\ made[c] = "none" /\ vw[c] = "none" /\ payload[c].purpose = "WITHDRAWAL"
  BY FinalizesVerified DEF FinalizeWithdrawal, AtFinalize
<1>2. UNCHANGED <<attempts, late, code, payload, session, vw>>
  BY DEF FinalizeWithdrawal
<1>3. /\ st' \in [Challenges -> Status] /\ st'[c] = "used"
      /\ made' \in [Challenges -> {"none", "pending", "left"}] /\ made'[c] = "pending"
      /\ \A d \in Challenges \ {c} : st'[d] = st[d] /\ made'[d] = made[d]
  BY <1>1 DEF FinalizeWithdrawal, IInv, TypeInv, Status
<1>4. balance' \in [Users -> 0..MaxBalance]
  <2>1. UserOf(c) \in Users /\ balance[UserOf(c)] \in 0..MaxBalance
    BY <1>1 DEF UserOf, Payloads, IInv, TypeInv
  <2>2. FinalAmount(c) \in Nat /\ FinalAmount(c) <= balance[UserOf(c)]
    <3>1. payload[c].amount \in Amounts \union {WithdrawAll}
      BY <1>1 DEF Payloads
    <3>2. FinalAmount(c) \in Nat
      BY <2>1, <3>1, OtpConstants DEF FinalAmount
    <3> QED BY <3>2 DEF FinalizeWithdrawal, CanWithdraw
  <2>3. balance' = [balance EXCEPT ![UserOf(c)] = balance[UserOf(c)] - FinalAmount(c)]
    BY DEF FinalizeWithdrawal
  <2>4. balance[UserOf(c)] - FinalAmount(c) \in 0..MaxBalance
    BY <2>1, <2>2, OtpConstants
  <2> HIDE DEF c
  <2> QED BY <2>1, <2>3, <2>4 DEF IInv, TypeInv
<1>5. /\ req' \in [Requests -> ReqType] /\ \A s \in Requests \ {t} : req'[s] = req[s]
      /\ req'[t].pc = "pop" /\ req'[t].ch = c
  BY <1>1, GoOnType DEF FinalizeWithdrawal, Goto, IInv, TypeInv, ReqType, ReqPc
<1>6. TypeInv'
  BY <1>2, <1>3, <1>4, <1>5 DEF IInv, TypeInv
<1>7. RowsInv' /\ SessionInv' /\ LockedAtTheLimit'
  <2>1. ASSUME NEW d \in Challenges PROVE RowInv(d)'
    BY <1>1, <1>2, <1>3 DEF IInv, RowsInv, RowInv
  <2>2. SessionInv'
    BY <1>2, <1>3 DEF IInv, SessionInv, TypeInv
  <2>3. LockedAtTheLimit'
    BY <1>1, <1>2, <1>3 DEF IInv, LockedAtTheLimit
  <2> QED BY <2>1, <2>2, <2>3 DEF RowsInv
<1>8. RequestsInv'
  <2>1. RequestInv(t)'
    BY <1>1, <1>3, <1>5 DEF RequestInv
  <2>2. ASSUME NEW s \in Requests \ {t} PROVE RequestInv(s)'
    BY <1>1, <1>2, <1>3, <1>5 DEF IInv, RequestsInv, RequestInv
  <2> QED BY <2>1, <2>2 DEF RequestsInv
<1>9. OneActiveChallenge'
  BY <1>1, <1>2, <1>3 DEF IInv, Safety, OneActiveChallenge, Owned, UserOf
<1>10. UsedExactlyOnce'
  BY <1>1, <1>2, <1>3 DEF IInv, Safety, UsedExactlyOnce
<1>11. OnePendingWithdrawal'
  <2>1. \A u \in Users : Owned(u)' = Owned(u)
    BY <1>1, <1>2, <1>3 DEF Owned, UserOf
  <2>2. \A d \in Owned(UserOf(c)) : made[d] # "pending"
    BY DEF FinalizeWithdrawal, CanWithdraw, HasPendingWithdrawal
  <2>3. \A u \in Users : c \in Owned(u) => u = UserOf(c)
    BY DEF Owned
  <2> QED BY <1>3, <2>1, <2>2, <2>3 DEF IInv, Safety, OnePendingWithdrawal, Owned
<1>12. OneActiveWallet' /\ OnePendingAddress'
  BY <1>2 DEF IInv, Safety, OneActiveWallet, OnePendingAddress, Wallets, UserOf
<1> QED BY <1>6, <1>7, <1>8, <1>9, <1>10, <1>11, <1>12 DEF IInv, Safety

LEMMA FinalizeAddressKeeps ==
  ASSUME IInv, NEW t \in Requests, FinalizeAddress(t)
  PROVE  IInv'
<1> DEFINE c == req[t].ch
<1>1. /\ c \in Challenges /\ st[c] = "verified" /\ payload[c] \in Payloads
      /\ made[c] = "none" /\ vw[c] = "none" /\ payload[c].purpose = "ADDRESS_CHANGE"
  BY FinalizesVerified DEF FinalizeAddress, AtFinalize
<1>2. UNCHANGED <<attempts, late, code, payload, session, made, balance>>
  BY DEF FinalizeAddress
<1>3. /\ st' \in [Challenges -> Status] /\ st'[c] = "used"
      /\ vw' \in [Challenges -> WalletStatus] /\ vw'[c] = "cooldown"
      /\ \A d \in Challenges \ {c} : st'[d] = st[d] /\ vw'[d] = vw[d]
  BY <1>1 DEF FinalizeAddress, IInv, TypeInv, Status, WalletStatus
<1>4. /\ req' \in [Requests -> ReqType] /\ \A s \in Requests \ {t} : req'[s] = req[s]
      /\ req'[t].pc = "pop" /\ req'[t].ch = c
  BY <1>1, GoOnType DEF FinalizeAddress, Goto, IInv, TypeInv, ReqType, ReqPc
<1>5. TypeInv'
  BY <1>2, <1>3, <1>4 DEF IInv, TypeInv
<1>6. RowsInv' /\ SessionInv' /\ LockedAtTheLimit'
  <2>1. ASSUME NEW d \in Challenges PROVE RowInv(d)'
    BY <1>1, <1>2, <1>3 DEF IInv, RowsInv, RowInv
  <2>2. SessionInv'
    BY <1>2, <1>3 DEF IInv, SessionInv, TypeInv
  <2>3. LockedAtTheLimit'
    BY <1>1, <1>2, <1>3 DEF IInv, LockedAtTheLimit
  <2> QED BY <2>1, <2>2, <2>3 DEF RowsInv
<1>7. RequestsInv'
  <2>1. RequestInv(t)'
    BY <1>1, <1>3, <1>4 DEF RequestInv
  <2>2. ASSUME NEW s \in Requests \ {t} PROVE RequestInv(s)'
    BY <1>1, <1>2, <1>3, <1>4 DEF IInv, RequestsInv, RequestInv
  <2> QED BY <2>1, <2>2 DEF RequestsInv
<1>8. OneActiveChallenge'
  BY <1>1, <1>2, <1>3 DEF IInv, Safety, OneActiveChallenge, Owned, UserOf
<1>9. UsedExactlyOnce'
  BY <1>1, <1>2, <1>3 DEF IInv, Safety, UsedExactlyOnce
<1>10. OnePendingWithdrawal'
  BY <1>1, <1>2, <1>3 DEF IInv, Safety, OnePendingWithdrawal, Owned, UserOf
<1>11. OneActiveWallet'
  BY <1>1, <1>2, <1>3 DEF IInv, Safety, OneActiveWallet, Wallets, UserOf
<1>12. OnePendingAddress'
  <2>1. Wallets(UserOf(c), payload[c].route, {"cooldown", "due"}) = {}
    BY DEF FinalizeAddress, CanRegister
  <2>2. ASSUME NEW u \in Users, NEW r \in Routes,
               NEW d \in Wallets(u, r, {"cooldown", "due"})', NEW e \in Wallets(u, r, {"cooldown", "due"})'
        PROVE  d = e
    <3>1. CASE u = UserOf(c) /\ r = payload[c].route
      BY <3>1, <2>1, <1>2, <1>3 DEF Wallets, UserOf
    <3>2. CASE ~(u = UserOf(c) /\ r = payload[c].route)
      BY <3>2, <1>2, <1>3 DEF IInv, Safety, OnePendingAddress, Wallets, UserOf
    <3> QED BY <3>1, <3>2
  <2> QED BY <2>2 DEF OnePendingAddress
<1> QED BY <1>5, <1>6, <1>7, <1>8, <1>9, <1>10, <1>11, <1>12 DEF IInv, Safety

-----------------------------------------------------------------------------
(* The payout and the addresses.                                            *)
LEMMA LeavesPendingKeeps ==
  ASSUME IInv, NEW c \in Challenges, WithdrawalLeavesPending(c)
  PROVE  IInv'
<1>1. UNCHANGED <<st, attempts, late, code, payload, session, vw, balance, req>>
  BY DEF WithdrawalLeavesPending, rows
<1>2. /\ made[c] = "pending" /\ made'[c] = "left"
      /\ made' \in [Challenges -> {"none", "pending", "left"}]
      /\ \A d \in Challenges \ {c} : made'[d] = made[d]
  BY DEF WithdrawalLeavesPending, IInv, TypeInv
<1>3. TypeInv' /\ SessionInv' /\ LockedAtTheLimit'
  BY <1>1, <1>2 DEF IInv, TypeInv, SessionInv, LockedAtTheLimit
<1>4. RowsInv' /\ RequestsInv'
  BY <1>1, <1>2 DEF IInv, RowsInv, RowInv, RequestsInv, RequestInv
<1>5. UsedExactlyOnce'
  BY <1>1, <1>2 DEF IInv, Safety, UsedExactlyOnce
<1>6. OneActiveChallenge' /\ OnePendingWithdrawal'
  BY <1>1, <1>2 DEF IInv, Safety, OneActiveChallenge, OnePendingWithdrawal, Owned, UserOf
<1>7. OneActiveWallet' /\ OnePendingAddress'
  BY <1>1 DEF IInv, Safety, OneActiveWallet, OnePendingAddress, Wallets, UserOf
<1> QED BY <1>3, <1>4, <1>5, <1>6, <1>7 DEF IInv, Safety

(* A change of addresses that no request in flight depends on.              *)
LEMMA AddressStep ==
  ASSUME IInv, UNCHANGED <<rows, session, made, balance, req>>,
         vw' \in [Challenges -> WalletStatus], OneActiveWallet', OnePendingAddress',
         \A c \in Challenges : vw'[c] # vw[c] => vw[c] # "none" /\ vw'[c] # "none",
         \A s \in Requests : req[s].pc = "finalize" => vw'[req[s].ch] = vw[req[s].ch]
  PROVE  IInv'
<1>1. UNCHANGED <<st, attempts, late, code, payload>>
  BY DEF rows
<1>2. TypeInv' /\ SessionInv' /\ LockedAtTheLimit'
  BY <1>1 DEF IInv, TypeInv, SessionInv, LockedAtTheLimit
<1>3. RowsInv' /\ RequestsInv'
  BY <1>1 DEF IInv, RowsInv, RowInv, RequestsInv, RequestInv
<1>4. UsedExactlyOnce'
  BY <1>1 DEF IInv, Safety, UsedExactlyOnce
<1>5. OneActiveChallenge' /\ OnePendingWithdrawal'
  BY <1>1 DEF IInv, Safety, OneActiveChallenge, OnePendingWithdrawal, Owned, UserOf
<1> QED BY <1>2, <1>3, <1>4, <1>5 DEF IInv, Safety

LEMMA CooldownKeeps ==
  ASSUME IInv, NEW v \in Challenges, CooldownEnds(v)
  PROVE  IInv'
<1>1. UNCHANGED <<rows, session, made, balance, req>> /\ UNCHANGED payload
  BY DEF CooldownEnds, rows
<1>2. /\ vw' \in [Challenges -> WalletStatus]
      /\ vw[v] = "cooldown" /\ vw'[v] = "due"
      /\ \A d \in Challenges \ {v} : vw'[d] = vw[d]
  BY DEF CooldownEnds, IInv, TypeInv, WalletStatus
<1>3. OneActiveWallet'
  BY <1>1, <1>2 DEF IInv, Safety, OneActiveWallet, Wallets, UserOf
<1>4. OnePendingAddress'
  BY <1>1, <1>2 DEF IInv, Safety, OnePendingAddress, Wallets, UserOf
<1>5. \A s \in Requests : req[s].pc = "finalize" => vw'[req[s].ch] = vw[req[s].ch]
  BY <1>2 DEF CooldownEnds, IInv, RequestsInv, RequestInv
<1> QED BY <1>1, <1>2, <1>3, <1>4, <1>5, AddressStep

LEMMA TryActivateKeeps ==
  ASSUME IInv, NEW v \in Challenges, TryActivate(v)
  PROVE  IInv'
<1>1. UNCHANGED <<rows, session, made, balance, req>> /\ UNCHANGED payload
  BY DEF TryActivate, rows
<1>2. /\ vw' \in [Challenges -> WalletStatus]
      /\ \A c \in Challenges : vw'[c] = vw[c] \/ (vw[c] \in {"due", "active"} /\ vw'[c] # "none")
      /\ OneActiveWallet' /\ OnePendingAddress'
  <2>1. {v} \in SUBSET {c \in Challenges : vw[c] = "due"} /\ vw' = Activated({v})
    BY DEF TryActivate
  <2>2. TypeInv /\ OneActiveWallet /\ OnePendingAddress
    BY DEF IInv, Safety
  <2> QED BY <2>1, <2>2, <1>1, ActivatedKeeps
<1>3. \A s \in Requests : req[s].pc = "finalize" => vw'[req[s].ch] = vw[req[s].ch]
  BY <1>2 DEF IInv, RequestsInv, RequestInv
<1>4. \A c \in Challenges : vw'[c] # vw[c] => vw[c] # "none" /\ vw'[c] # "none"
  BY <1>2
<1> QED BY <1>1, <1>2, <1>3, <1>4, AddressStep

-----------------------------------------------------------------------------
(* The invariant, and the theorems that follow from it.                     *)
LEMMA InitHolds == Init => IInv
<1> SUFFICES ASSUME Init PROVE IInv
  OBVIOUS
<1>1. TypeInv
  <2>1. IdleReq \in ReqType
    BY DEF IdleReq, ReqType, ReqPc
  <2> QED BY <2>1, OtpConstants DEF Init, TypeInv, Status, WalletStatus
<1>2. RowsInv /\ SessionInv /\ RequestsInv
  BY DEF Init, RowsInv, RowInv, SessionInv, RequestsInv, RequestInv, IdleReq
<1>3. LockedAtTheLimit
  BY OtpConstants DEF Init, LockedAtTheLimit
<1>4. Safety
  BY DEF Init, Safety, OneActiveChallenge, UsedExactlyOnce, OnePendingWithdrawal,
     OneActiveWallet, OnePendingAddress, Wallets, Owned
<1> QED BY <1>1, <1>2, <1>3, <1>4 DEF IInv

LEMMA NextKeeps == IInv /\ [Next]_vars => IInv'
<1> SUFFICES ASSUME IInv, [Next]_vars PROVE IInv'
  OBVIOUS
<1>1. ASSUME NEW u \in Users, NEW t \in Requests, NEW amount \in Amounts \union {WithdrawAll},
             NEW v \in Challenges, AskWithdrawal(t, u, amount, v)
      PROVE  IInv'
  BY <1>1, AskWithdrawalKeeps
<1>2. ASSUME NEW u \in Users, NEW r \in Routes, AskAddress(u, r) PROVE IInv'
  BY <1>2, AskAddressKeeps
<1>3. ASSUME NEW u \in Users, NEW t \in Requests, NEW p \in Purposes, Load(t, u, p) PROVE IInv'
  BY <1>3, LoadKeeps
<1>4. ASSUME NEW u \in Users, SessionEnds(u) \/ WalletMoves(u) PROVE IInv'
  BY <1>4, OutsideKeeps
<1>5. ASSUME NEW t \in Requests, RequestStep(t) \/ RequestDies(t) PROVE IInv'
  BY <1>5, CreateChallengeKeeps, ResendKeeps, VerifyKeeps, FinalizeWithdrawalKeeps,
     FinalizeAddressKeeps, EndingsKeep DEF RequestStep
<1>6. ASSUME NEW c \in Challenges,
             ClockPasses(c) \/ WithdrawalLeavesPending(c) \/ CooldownEnds(c) \/ TryActivate(c)
      PROVE  IInv'
  BY <1>6, ClockKeeps, LeavesPendingKeeps, CooldownKeeps, TryActivateKeeps
<1>7. CASE UNCHANGED vars
  <2>1. UNCHANGED <<rows, made, vw, balance, session, req>>
    BY <1>7 DEF vars
  <2> QED BY <2>1, QuietKeeps DEF IInv, TypeInv
<1> QED BY <1>1, <1>2, <1>3, <1>4, <1>5, <1>6, <1>7 DEF Next, UserStep

(* The inductive invariant holds in every state of every behaviour.         *)
THEOREM Invariant == Spec => []IInv
  BY InitHolds, NextKeeps, PTL DEF Spec

(* Types, and no wallet overdrawn by the withdrawals its owner confirms.    *)
THEOREM TypeCorrect == Spec => []TypeOK
<1>1. IInv => TypeOK
  BY DEF IInv, TypeInv, TypeOK, Status, WalletStatus, ReqType, ReqPc
<1> QED BY <1>1, Invariant, PTL

(* A user never has two challenges in progress (create_challenge).          *)
THEOREM OneChallenge == Spec => []OneActiveChallenge
<1>1. IInv => OneActiveChallenge
  BY DEF IInv, Safety
<1> QED BY <1>1, Invariant, PTL

(* A USED challenge, and no other, has made its withdrawal or its address   *)
(* (mark_challenge_used).                                                   *)
THEOREM UsedOnce == Spec => []UsedExactlyOnce
<1>1. IInv => UsedExactlyOnce
  BY DEF IInv, Safety
<1> QED BY <1>1, Invariant, PTL

(* The wrong codes of all tabs together never pass the limit                *)
(* (verify_challenge).                                                      *)
THEOREM LimitHolds == Spec => []LockedAtTheLimit
<1>1. IInv => LockedAtTheLimit
  BY DEF IInv
<1> QED BY <1>1, Invariant, PTL

(* One withdrawal of a user is pending at a time (_finalize).               *)
THEOREM OneWithdrawal == Spec => []OnePendingWithdrawal
<1>1. IInv => OnePendingWithdrawal
  BY DEF IInv, Safety
<1> QED BY <1>1, Invariant, PTL

(* One address in use, and one waiting, on each route of a user             *)
(* (verified_wallets.py), so that neither constraint is ever what fails in  *)
(* _try_activate().                                                         *)
THEOREM OneAddress == Spec => [](OneActiveWallet /\ OnePendingAddress)
<1>1. IInv => OneActiveWallet /\ OnePendingAddress
  BY DEF IInv, Safety
<1> QED BY <1>1, Invariant, PTL

(* Every "at most one" rule of the codes, the withdrawals and the addresses *)
(* of a user, however his tabs, the clock and the sweep interleave.         *)
THEOREM OnlyOneOfEach == Spec => []OneOfEach
  BY OneChallenge, OneWithdrawal, OneAddress, PTL DEF OneOfEach

-----------------------------------------------------------------------------
(* What a step may do to the row of a challenge.                            *)
Advances(c) ==
    \/ st'[c] = st[c]
    \/ st[c] = "none" /\ st'[c] = "pending"
    \/ st[c] = "pending" /\ st'[c] \in {"verified", "expired", "locked"}
    \/ st[c] = "verified" /\ st'[c] = "used"

Withdraws(c) == made[c] # "pending" /\ made'[c] = "pending"

RowStep ==
    \A c \in Challenges :
       Advances(c) /\ attempts'[c] >= attempts[c] /\ (Withdraws(c) => st[c] = "verified")

LEMMA CreateAdvances ==
  ASSUME IInv, NEW u, NEW p, NEW data, create_challenge(u, p, data), UNCHANGED made
  PROVE  RowStep
<1>1. PICK c \in Challenges :
        st[c] = "none" /\ st' = [Normalized(Owned(u)) EXCEPT ![c] = "pending"] /\ UNCHANGED attempts
  BY DEF create_challenge
<1>2. /\ Normalized(Owned(u)) \in [Challenges -> Status]
      /\ \A d \in Challenges :
            \/ Normalized(Owned(u))[d] = st[d]
            \/ d \in Owned(u) /\ st[d] = "pending" /\ Normalized(Owned(u))[d] = "expired"
  BY NormalizedType DEF IInv
<1> QED BY <1>1, <1>2 DEF RowStep, Advances, Withdraws, IInv, TypeInv

LEMMA StillRows ==
  ASSUME IInv, UNCHANGED <<st, attempts>>, \A c \in Challenges : ~Withdraws(c)
  PROVE  RowStep
  BY DEF RowStep, Advances, IInv, TypeInv

LEMMA NextAdvances == IInv /\ [Next]_vars => RowStep
<1> SUFFICES ASSUME IInv, [Next]_vars PROVE RowStep
  OBVIOUS
<1>1. ASSUME NEW u \in Users, NEW t \in Requests, NEW amount \in Amounts \union {WithdrawAll},
             NEW v \in Challenges, AskWithdrawal(t, u, amount, v)
      PROVE  RowStep
  BY <1>1, StillRows DEF AskWithdrawal, rows, Withdraws
<1>2. ASSUME NEW u \in Users, NEW r \in Routes, AskAddress(u, r) PROVE RowStep
  BY <1>2, CreateAdvances DEF AskAddress
<1>3. ASSUME NEW u \in Users, NEW t \in Requests, NEW p \in Purposes, Load(t, u, p) PROVE RowStep
  BY <1>3, NormalizedType DEF Load, RowStep, Advances, Withdraws, IInv, TypeInv
<1>4. ASSUME NEW u \in Users, SessionEnds(u) \/ WalletMoves(u) PROVE RowStep
  BY <1>4, StillRows DEF SessionEnds, WalletMoves, rows, Withdraws
<1>5. ASSUME NEW t \in Requests, RequestStep(t) \/ RequestDies(t) PROVE RowStep
  <2>1. CASE CreateChallenge(t)
    <3>1. CASE create_challenge(req[t].ask.user, "WITHDRAWAL", req[t].ask)
      BY <2>1, <3>1, CreateAdvances DEF CreateChallenge
    <3>2. CASE UNCHANGED <<rows, session>>
      BY <2>1, <3>2, StillRows DEF CreateChallenge, rows, Withdraws
    <3> QED BY <2>1, <3>1, <3>2 DEF CreateChallenge
  <2>2. CASE ResendCheck(t)
    BY <2>2, NormalizedType DEF ResendCheck, RowStep, Advances, Withdraws, IInv, TypeInv
  <2>3. CASE Verify(t)
    <3>1. req[t].ch \in Challenges /\ UNCHANGED made
      BY <2>3 DEF Verify, IInv, RequestsInv, RequestInv
    <3>2. CASE UNCHANGED attempts
      BY <2>3, <3>1, <3>2 DEF Verify, WrongCode, RowStep, Advances, Withdraws, IInv, TypeInv
    <3>3. CASE WrongCode(req[t].ch) /\ st[req[t].ch] = "pending"
      BY <3>1, <3>3 DEF WrongCode, RowStep, Advances, Withdraws, IInv, TypeInv
    <3> QED BY <2>3, <3>2, <3>3 DEF Verify
  <2>4. CASE FinalizeWithdrawal(t) \/ FinalizeAddress(t)
    <3>1. req[t].ch \in Challenges /\ st[req[t].ch] = "verified"
      BY <2>4, FinalizesVerified DEF FinalizeWithdrawal, FinalizeAddress
    <3> QED BY <2>4, <3>1
        DEF FinalizeWithdrawal, FinalizeAddress, RowStep, Advances, Withdraws, IInv, TypeInv
  <2>5. CASE ResendSave(t) \/ FinalizeRefused(t) \/ PopSession(t) \/ RequestDies(t)
    BY <2>5, StillRows DEF ResendSave, FinalizeRefused, PopSession, RequestDies, rows, Withdraws
  <2> QED BY <1>5, <2>1, <2>2, <2>3, <2>4, <2>5 DEF RequestStep
<1>6. ASSUME NEW c \in Challenges,
             ClockPasses(c) \/ WithdrawalLeavesPending(c) \/ CooldownEnds(c) \/ TryActivate(c)
      PROVE  RowStep
  <2>1. \A d \in Challenges : ~Withdraws(d)
    BY <1>6 DEF ClockPasses, WithdrawalLeavesPending, CooldownEnds, TryActivate, Withdraws, IInv, TypeInv
  <2> QED BY <1>6, <2>1, StillRows
      DEF ClockPasses, WithdrawalLeavesPending, CooldownEnds, TryActivate, rows
<1>7. CASE UNCHANGED vars
  BY <1>7, StillRows DEF vars, rows, Withdraws
<1> QED BY <1>1, <1>2, <1>3, <1>4, <1>5, <1>6, <1>7 DEF Next, UserStep

(* No terminal challenge comes back (resend_challenge, verify_challenge).   *)
THEOREM TerminalStays == Spec => NeverRevived
<1>1. RowStep => \A c \in Challenges : st[c] \in {"used", "expired", "locked"} => st'[c] = st[c]
  BY DEF RowStep, Advances
<1> QED BY <1>1, NextAdvances, Invariant, PTL DEF Spec, NeverRevived

(* No resend lowers the count of wrong codes (resend_challenge).            *)
THEOREM AttemptsGrow == Spec => AttemptsNeverReset
<1>1. RowStep => \A c \in Challenges : attempts'[c] >= attempts[c]
  BY DEF RowStep
<1> QED BY <1>1, NextAdvances, Invariant, PTL DEF Spec, AttemptsNeverReset

(* A wallet is debited for a challenge that is VERIFIED, hence once for each *)
(* (_finalize, whatever the tab that runs it holds in memory).              *)
THEOREM DebitedFromVerified == Spec => CreatedOnlyWhenVerified
<1>1. RowStep => \A c \in Challenges :
                    made[c] # "pending" /\ made'[c] = "pending" => st[c] = "verified"
  BY DEF RowStep, Withdraws
<1> QED BY <1>1, NextAdvances, Invariant, PTL DEF Spec, CreatedOnlyWhenVerified

-----------------------------------------------------------------------------
(* A route with an address in use keeps one.                                *)
ActiveStep ==
    \A u \in Users, r \in Routes :
       Wallets(u, r, {"active"}) # {} => Wallets(u, r, {"active"})' # {}

LEMMA ActiveStays ==
  ASSUME \A c \in Challenges : vw[c] = "active" => vw'[c] = "active" /\ payload'[c] = payload[c]
  PROVE  ActiveStep
<1>1. ASSUME NEW u \in Users, NEW r \in Routes
      PROVE  Wallets(u, r, {"active"}) \subseteq Wallets(u, r, {"active"})'
  BY DEF Wallets, UserOf
<1> QED BY <1>1 DEF ActiveStep

LEMMA NextKeepsActive == IInv /\ [Next]_vars => ActiveStep
<1> SUFFICES ASSUME IInv, [Next]_vars PROVE ActiveStep
  OBVIOUS
<1>0. TypeInv /\ OneActiveWallet /\ OnePendingAddress
  BY DEF IInv, Safety
<1>1. ASSUME NEW S \in SUBSET {c \in Challenges : vw[c] = "due"}, vw' = Activated(S), UNCHANGED payload
      PROVE  ActiveStep
  BY <1>0, <1>1, ActivatedKeeps DEF ActiveStep
<1>2. ASSUME NEW u, NEW p, NEW data, create_challenge(u, p, data), UNCHANGED vw PROVE ActiveStep
  <2>1. PICK c \in Challenges : st[c] = "none" /\ payload' = [payload EXCEPT ![c] = data]
    BY <1>2 DEF create_challenge
  <2>2. vw[c] = "none"
    BY <2>1 DEF IInv, Safety, UsedExactlyOnce
  <2> QED BY <1>2, <2>1, <2>2, ActiveStays DEF IInv, TypeInv
<1>3. ASSUME UNCHANGED <<payload, vw>> PROVE ActiveStep
  BY <1>3, ActiveStays
<1>4. ASSUME NEW u \in Users, NEW t \in Requests, NEW amount \in Amounts \union {WithdrawAll},
             NEW v \in Challenges, AskWithdrawal(t, u, amount, v)
      PROVE  ActiveStep
  <2> DEFINE S == {w \in Owned(u) : vw[w] = "due"}
  <2>1. S \in SUBSET {c \in Challenges : vw[c] = "due"}
    BY DEF Owned
  <2>2. vw' = Activated(S) /\ UNCHANGED payload
    BY <1>4 DEF AskWithdrawal, rows
  <2> HIDE DEF S
  <2> QED BY <2>1, <2>2, <1>1
<1>5. ASSUME NEW v \in Challenges, TryActivate(v) PROVE ActiveStep
  <2>1. {v} \in SUBSET {c \in Challenges : vw[c] = "due"}
    BY <1>5 DEF TryActivate
  <2>2. vw' = Activated({v}) /\ UNCHANGED payload
    BY <1>5 DEF TryActivate, rows
  <2> QED BY <2>1, <2>2, <1>1
<1>6. ASSUME NEW t \in Requests, RequestStep(t) \/ RequestDies(t) PROVE ActiveStep
  <2>1. CASE CreateChallenge(t)
    BY <2>1, <1>2, <1>3 DEF CreateChallenge, rows
  <2>2. CASE FinalizeAddress(t)
    <3>1. req[t].ch \in Challenges /\ vw[req[t].ch] = "none"
      BY <2>2, FinalizesVerified DEF FinalizeAddress
    <3> QED BY <2>2, <3>1, ActiveStays DEF FinalizeAddress, IInv, TypeInv
  <2>3. CASE \/ ResendCheck(t) \/ ResendSave(t) \/ Verify(t) \/ FinalizeWithdrawal(t)
             \/ FinalizeRefused(t) \/ PopSession(t) \/ RequestDies(t)
    BY <2>3, <1>3 DEF ResendCheck, ResendSave, Verify, FinalizeWithdrawal, FinalizeRefused,
       PopSession, RequestDies, rows
  <2> QED BY <1>6, <2>1, <2>2, <2>3 DEF RequestStep
<1>7. ASSUME NEW c \in Challenges, CooldownEnds(c) PROVE ActiveStep
  BY <1>7, ActiveStays DEF CooldownEnds, rows, IInv, TypeInv
<1>8. ASSUME NEW c \in Challenges, ClockPasses(c) \/ WithdrawalLeavesPending(c) PROVE ActiveStep
  BY <1>8, <1>3 DEF ClockPasses, WithdrawalLeavesPending, rows
<1>9. ASSUME NEW u \in Users, NEW r \in Routes, AskAddress(u, r) PROVE ActiveStep
  BY <1>9, <1>2 DEF AskAddress
<1>10. ASSUME NEW u \in Users, NEW t \in Requests, NEW p \in Purposes, Load(t, u, p)
       PROVE  ActiveStep
  BY <1>10, <1>3 DEF Load
<1>11. ASSUME NEW u \in Users, SessionEnds(u) \/ WalletMoves(u) PROVE ActiveStep
  BY <1>11, <1>3 DEF SessionEnds, WalletMoves, rows
<1>12. CASE UNCHANGED vars
  BY <1>12, <1>3 DEF vars, rows
<1> QED BY <1>4, <1>5, <1>6, <1>7, <1>8, <1>9, <1>10, <1>11, <1>12 DEF Next, UserStep

(* Replacing an address never leaves its route without one (_try_activate). *)
THEOREM ActiveKept == Spec => KeepsAnActiveWallet
<1>1. ActiveStep => \A u \in Users, r \in Routes :
                       Wallets(u, r, {"active"}) # {} => Wallets(u, r, {"active"})' # {}
  BY DEF ActiveStep
<1> QED BY <1>1, NextKeepsActive, Invariant, PTL DEF Spec, KeepsAnActiveWallet
=============================================================================

-------------------------- MODULE IBAccrual_proofs --------------------------
(***************************************************************************)
(* Theorems about IBAccrual, for any number of events and IBs, any rates   *)
(* and any changes of them.  The history of a rate has neither gaps nor    *)
(* overlaps, so the past of a rate never changes.                          *)
(* Likewise a link is never made in the past.  The links never close a     *)
(* cycle, so a chain has no IB twice, and what its levels get of a budget  *)
(* adds up.                                                                *)
(***************************************************************************)
EXTENDS IBAccrual, SumLemmas, TLAPS

EventRow == [at : Times \cup {NotYet}, qty : Quantities \cup {0}, rate : Nat]

Typed ==
    /\ clock \in Times
    /\ event \in [Events -> EventRow]
    /\ own \in [IBs \X RuleTypes -> SUBSET Rules]
    /\ direct \in [Events -> Nat \cup {NotYet}]

(* No two rules of a history are in force at the same time.                 *)
NoOverlap(rules) ==
    \A r, s \in rules : \A t \in Times :
        r \in InForce(rules, t) /\ s \in InForce(rules, t) => r = s

(* What has been written about the past is in the past.                     *)
Past ==
    /\ \A k \in IBs \X RuleTypes : \A r \in own[k] :
           r.from <= clock /\ (r.until = Open \/ r.until <= clock)
    /\ \A e \in Events : event[e].at <= clock
    /\ \A e \in Events : direct[e] # NotYet => Happened(e)

RateOfEvent ==
    \A e \in Events : Happened(e) =>
        event[e].rate = RateAt(ReferredBy[e], "PER_LOT", event[e].at)

IInv == /\ Typed /\ Past
        /\ \A k \in IBs \X RuleTypes : NoOverlap(own[k])
        /\ RateOfEvent /\ AmountAtEventRate

-----------------------------------------------------------------------------
(* Rates.                                                                   *)

(* RateAt, of a history that is given.                                      *)
RateIn(rules, type, t) ==
    LET mine == InForce(rules, t)
    IN  IF mine = {} THEN GlobalRate[type]
        ELSE IF Cardinality(mine) = 1 THEN (CHOOSE r \in mine : TRUE).rate
        ELSE 0

LEMMA RateInNat ==
    ASSUME NEW rules \in SUBSET Rules, NEW type \in RuleTypes, NEW t
    PROVE  RateIn(rules, type, t) \in Nat
<1>1. GlobalRate[type] \in Nat
  BY AccrualAssumption DEF AccrualAssumption
<1>2. ASSUME InForce(rules, t) # {} PROVE (CHOOSE r \in InForce(rules, t) : TRUE).rate \in Nat
  <2>1. (CHOOSE r \in InForce(rules, t) : TRUE) \in InForce(rules, t)
    BY <1>2
  <2>2. InForce(rules, t) \subseteq Rules
    BY DEF InForce
  <2>. QED BY <2>1, <2>2 DEF Rules
<1>. QED BY <1>1, <1>2 DEF RateIn

LEMMA RateOfOne ==
    ASSUME NEW rules, NEW type, NEW t, NEW r \in InForce(rules, t),
           \A s \in InForce(rules, t) : s = r
    PROVE  RateIn(rules, type, t) = r.rate
<1>1. InForce(rules, t) = {r}
  OBVIOUS
<1>2. Cardinality({r}) = 1
  BY FS_Singleton
<1>3. (CHOOSE s \in {r} : TRUE) = r
  OBVIOUS
<1>. QED BY <1>1, <1>2, <1>3 DEF RateIn

LEMMA ClosedRule ==
    ASSUME NEW r \in Rules, NEW now \in Times
    PROVE  /\ ClosedAt(r, now) \in Rules
           /\ ClosedAt(r, now).rate = r.rate /\ ClosedAt(r, now).from = r.from
           /\ ClosedAt(r, now).until = IF r.until = Open THEN now ELSE r.until
           /\ r.from \in Times /\ r.until \in Times \cup {Open} /\ r.rate \in Nat
  BY DEF ClosedAt, Rules

LEMMA TimesAreNumbers == Times \subseteq Nat /\ Open \in Nat /\ \A t \in Times : t < Open
  BY AccrualAssumption DEF AccrualAssumption, Times, Open

(* A history whose open rule is closed at `now' and which goes on with a    *)
(* new one from then: its past stays as it was.                             *)
LEMMA HistoryGoesOn ==
    ASSUME NEW rules \in SUBSET Rules, NEW now \in Times, NEW rate \in Nat,
           NoOverlap(rules),
           \A r \in rules : r.from < now /\ (r.until = Open \/ r.until < now)
    PROVE  /\ Continued(rules, now, rate) \in SUBSET Rules
           /\ NoOverlap(Continued(rules, now, rate))
           /\ \A r \in Continued(rules, now, rate) :
                  r.from <= now /\ (r.until = Open \/ r.until <= now)
           /\ \A t \in Times, type \in RuleTypes :
                  t < now => RateIn(Continued(rules, now, rate), type, t) = RateIn(rules, type, t)
<1>. DEFINE new == [rate |-> rate, from |-> now, until |-> Open]
            all == Continued(rules, now, rate)
<1>t. Times \subseteq Nat /\ Open \in Nat /\ \A t \in Times : t < Open
  BY TimesAreNumbers
<1>n. new \in Rules /\ new.from = now /\ new.until = Open
  BY DEF Rules
<1>1. all \in SUBSET Rules
  BY <1>n, ClosedRule DEF Continued
<1>2. \A s \in all : s = new \/ \E r \in rules : s = ClosedAt(r, now)
  BY DEF Continued
<1>c. ASSUME NEW r \in rules
      PROVE  /\ ClosedAt(r, now).from <= now
             /\ ClosedAt(r, now).until <= now
  <2>1. r.from < now /\ (r.until = Open \/ r.until < now)
    OBVIOUS
  <2>2. /\ ClosedAt(r, now).from = r.from
        /\ ClosedAt(r, now).until = IF r.until = Open THEN now ELSE r.until
    BY ClosedRule
  <2>3. now \in Nat /\ r.from \in Nat /\ r.until \in Nat
    BY <1>t, ClosedRule
  <2>. QED BY <2>1, <2>2, <2>3
<1>3. ASSUME NEW s \in all PROVE s.from <= now /\ (s.until = Open \/ s.until <= now)
  <2>1. CASE s = new
    BY <2>1, <1>n, <1>t
  <2>2. ASSUME NEW r \in rules, s = ClosedAt(r, now)
        PROVE  s.from <= now /\ (s.until = Open \/ s.until <= now)
    BY <2>2, <1>c
  <2>. QED BY <1>2, <2>1, <2>2
(* Before now, a rule is in force exactly when what it was closed to is.    *)
<1>4. ASSUME NEW t \in Times, t < now
      PROVE  /\ \A r \in InForce(rules, t) : ClosedAt(r, now) \in InForce(all, t)
             /\ \A s \in InForce(all, t) : \E r \in InForce(rules, t) : s = ClosedAt(r, now)
  <2>1. ASSUME NEW r \in InForce(rules, t) PROVE ClosedAt(r, now) \in InForce(all, t)
    <3>1. r \in rules /\ r.from <= t /\ t < r.until
      BY DEF InForce
    <3>2. ClosedAt(r, now) \in all
      BY <3>1 DEF Continued
    <3>3. ClosedAt(r, now).from <= t /\ t < ClosedAt(r, now).until
      BY <1>4, <3>1, ClosedRule
    <3>. QED BY <3>2, <3>3 DEF InForce
  <2>2. ASSUME NEW s \in InForce(all, t)
        PROVE  \E r \in InForce(rules, t) : s = ClosedAt(r, now)
    <3>1. s \in all /\ s.from <= t /\ t < s.until
      BY DEF InForce
    <3>2. s # new
      BY <3>1, <1>4, <1>n, <1>t
    <3>3. PICK r \in rules : s = ClosedAt(r, now)
      BY <3>1, <3>2, <1>2
    <3>4. r.from <= t /\ t < r.until
      BY <3>1, <3>3, <1>t, <1>4, ClosedRule
    <3>. QED BY <3>3, <3>4 DEF InForce
  <2>. QED BY <2>1, <2>2
<1>5. NoOverlap(all)
  <2>. SUFFICES ASSUME NEW r \in all, NEW s \in all, NEW t \in Times,
                       r \in InForce(all, t), s \in InForce(all, t)
                PROVE  r = s
    BY DEF NoOverlap
  <2>1. CASE t < now
    <3>1. PICK r0 \in InForce(rules, t) : r = ClosedAt(r0, now)
      BY <1>4, <2>1
    <3>2. PICK s0 \in InForce(rules, t) : s = ClosedAt(s0, now)
      BY <1>4, <2>1
    <3>3. r0 = s0
      BY DEF NoOverlap, InForce
    <3>. QED BY <3>1, <3>2, <3>3
  <2>2. CASE ~(t < now)
    <3>1. ASSUME NEW u \in all, u \in InForce(all, t) PROVE u = new
      <4>1. t < u.until
        BY <3>1 DEF InForce
      <4>2. ASSUME NEW u0 \in rules, u = ClosedAt(u0, now) PROVE FALSE
        <5>1. u.until <= now /\ u.until \in Nat
          BY <4>2, <1>c, <1>t, ClosedRule
        <5>. QED BY <4>1, <5>1, <2>2, <1>t
      <4>. QED BY <1>2, <4>2
    <3>. QED BY <3>1
  <2>. QED BY <2>1, <2>2
<1>6. ASSUME NEW t \in Times, NEW type \in RuleTypes, t < now
      PROVE  RateIn(all, type, t) = RateIn(rules, type, t)
  <2>1. CASE InForce(rules, t) = {}
    <3>1. InForce(all, t) = {}
      BY <1>4, <1>6, <2>1
    <3>. QED BY <2>1, <3>1 DEF RateIn
  <2>2. ASSUME NEW r \in InForce(rules, t)
        PROVE  RateIn(all, type, t) = RateIn(rules, type, t)
    <3>1. \A s \in InForce(rules, t) : s = r
      BY DEF NoOverlap, InForce
    <3>2. RateIn(rules, type, t) = r.rate
      BY <3>1, RateOfOne
    <3>3. ClosedAt(r, now) \in InForce(all, t)
      BY <1>4, <1>6
    <3>4. \A s \in InForce(all, t) : s = ClosedAt(r, now)
      BY <1>4, <1>6, <3>1
    <3>5. RateIn(all, type, t) = ClosedAt(r, now).rate
      BY <3>3, <3>4, RateOfOne
    <3>6. r \in Rules
      BY DEF InForce
    <3>. QED BY <3>2, <3>5, <3>6, ClosedRule
  <2>. QED BY <2>1, <2>2
<1>. QED BY <1>1, <1>3, <1>5, <1>6

-----------------------------------------------------------------------------
(* _money_round is exact to half a cent.                                    *)
LEMMA RoundedToHalf ==
    ASSUME NEW x \in Nat
    PROVE  /\ MoneyRound(x) \in Nat
           /\ 2 * (MoneyRound(x) * Cent - x) \in -Cent .. Cent
<1>. DEFINE q == x \div Cent
            rest == x % Cent
<1>c. Cent \in Nat \ {0}
  BY AccrualAssumption DEF AccrualAssumption
<1>1. q \in Nat /\ rest \in 0 .. Cent - 1
  BY <1>c
<1>2. x = Cent * q + rest
  BY <1>c
<1>. HIDE DEF q, rest
<1>3. (q + 1) * Cent = Cent * q + Cent /\ q * Cent = Cent * q /\ Cent * q \in Nat
  BY <1>1, <1>c
<1>4. CASE MoneyRound(x) = q + 1 /\ 2 * rest >= Cent
  BY <1>1, <1>2, <1>3, <1>4, <1>c
<1>5. CASE MoneyRound(x) = q /\ 2 * rest <= Cent
  BY <1>1, <1>2, <1>3, <1>5, <1>c
<1>6. \/ MoneyRound(x) = q + 1 /\ 2 * rest >= Cent
      \/ MoneyRound(x) = q /\ 2 * rest <= Cent
  BY <1>1, <1>c DEF MoneyRound, q, rest
<1>. QED BY <1>4, <1>5, <1>6


LEMMA EventTyped ==
    ASSUME IInv, NEW e \in Events
    PROVE  /\ event[e].at \in Times \cup {NotYet} /\ event[e].at \in Int
           /\ event[e].at <= clock
           /\ event[e].qty \in Nat /\ event[e].rate \in Nat
<1>1. event[e] \in EventRow
  BY DEF IInv, Typed
<1>2. event[e].at \in Times \cup {NotYet} /\ event[e].qty \in Quantities \cup {0}
      /\ event[e].rate \in Nat
  BY <1>1 DEF EventRow
<1>3. event[e].qty \in Nat
  <2>1. Quantities \cup {0} \subseteq Nat
    BY AccrualAssumption DEF AccrualAssumption
  <2>. QED BY <1>2, <2>1, Zenon
<1>4. event[e].at \in Int
  <2>1. Times \cup {NotYet} \subseteq Int
    BY TimesAreNumbers DEF NotYet
  <2>. QED BY <1>2, <2>1, Zenon
<1>. QED BY <1>2, <1>3, <1>4 DEF IInv, Past

LEMMA DirectAmountIs ==
    ASSUME IInv, NEW e \in Events, Happened(e)
    PROVE  DirectAmount(e) = NotYet \/ DirectAmount(e) = MoneyRound(event[e].qty * event[e].rate)
  BY DEF IInv, RateOfEvent, DirectAmount

-----------------------------------------------------------------------------
(* The invariant.                                                           *)

LEMMA InvInit == Init => IInv
<1>. SUFFICES ASSUME Init PROVE IInv
  OBVIOUS
<1>1. 0 \in Times
  BY AccrualAssumption DEF Times, AccrualAssumption
<1>2. Typed
  BY <1>1 DEF Init, Typed, EventRow
<1>3. Past
  BY DEF Init, Past, NotYet
<1>4. \A k \in IBs \X RuleTypes : NoOverlap(own[k])
  BY DEF Init, NoOverlap
<1>5. RateOfEvent /\ AmountAtEventRate
  BY DEF Init, RateOfEvent, AmountAtEventRate, Happened
<1>. QED BY <1>2, <1>3, <1>4, <1>5 DEF IInv

LEMMA RateAtIs == \A ib, type, t : RateAt(ib, type, t) = RateIn(own[<<ib, type>>], type, t)
  BY DEF RateAt, RateIn

(* A change of a rate: one history goes on, its past as it was.             *)
LEMMA ChangeHistory ==
    ASSUME IInv, NEW ib \in IBs, NEW type \in RuleTypes, NEW rate, ChangeRate(ib, type, rate)
    PROVE  /\ clock \in Times /\ clock' \in Times /\ clock \in Nat /\ clock' = clock + 1
           /\ own' \in [IBs \X RuleTypes -> SUBSET Rules]
           /\ \A k \in (IBs \X RuleTypes) \ {<<ib, type>>} : own'[k] = own[k]
           /\ NoOverlap(own'[<<ib, type>>])
           /\ \A r \in own'[<<ib, type>>] : r.from <= clock' /\ (r.until = Open \/ r.until <= clock')
           /\ \A t \in Times, ty \in RuleTypes : t < clock' =>
                  RateIn(own'[<<ib, type>>], ty, t) = RateIn(own[<<ib, type>>], ty, t)
<1>. DEFINE k0 == <<ib, type>>
<1>1. /\ rate \in Nat /\ clock < MaxClock /\ clock' = clock + 1
      /\ own' = [own EXCEPT ![k0] = Continued(@, clock', rate)]
  BY AccrualAssumption DEF ChangeRate, AccrualAssumption
<1>2. clock \in Times /\ clock' \in Times /\ clock \in Nat
  BY <1>1, AccrualAssumption DEF IInv, Typed, Times, AccrualAssumption
<1>3. k0 \in IBs \X RuleTypes /\ own \in [IBs \X RuleTypes -> SUBSET Rules]
  BY DEF IInv, Typed
<1>4. /\ own[k0] \in SUBSET Rules /\ NoOverlap(own[k0])
      /\ \A r \in own[k0] : r.from <= clock /\ (r.until = Open \/ r.until <= clock)
  BY <1>3 DEF IInv, Past
<1>5. \A r \in own[k0] : r.from < clock' /\ (r.until = Open \/ r.until < clock')
  <2>. TAKE r \in own[k0]
  <2>1. r.from \in Nat /\ r.until \in Nat
    BY <1>4, TimesAreNumbers DEF Rules
  <2>. QED BY <2>1, <1>4, <1>1, <1>2
<1>6. own'[k0] = Continued(own[k0], clock', rate)
      /\ \A k \in (IBs \X RuleTypes) \ {k0} : own'[k] = own[k]
  BY <1>1, <1>3
<1>7. /\ own'[k0] \in SUBSET Rules /\ NoOverlap(own'[k0])
      /\ \A r \in own'[k0] : r.from <= clock' /\ (r.until = Open \/ r.until <= clock')
      /\ \A t \in Times, ty \in RuleTypes :
             t < clock' => RateIn(own'[k0], ty, t) = RateIn(own[k0], ty, t)
  BY <1>1, <1>2, <1>4, <1>5, <1>6, HistoryGoesOn
<1>8. own' \in [IBs \X RuleTypes -> SUBSET Rules]
  <2>1. own' = [own EXCEPT ![k0] = Continued(own[k0], clock', rate)]
    BY <1>1
  <2>. QED BY <2>1, <1>3, <1>6, <1>7
<1>. QED BY <1>1, <1>2, <1>6, <1>7, <1>8

LEMMA ChangeStep ==
    ASSUME IInv, NEW ib \in IBs, NEW type \in RuleTypes, NEW rate, ChangeRate(ib, type, rate)
    PROVE  IInv'
<1>. DEFINE k0 == <<ib, type>>
<1>1. clock' = clock + 1 /\ UNCHANGED <<event, direct>>
  BY DEF ChangeRate
<1>2. clock \in Times /\ clock' \in Times /\ clock \in Nat
  BY ChangeHistory
<1>3. own \in [IBs \X RuleTypes -> SUBSET Rules]
  BY DEF IInv, Typed
<1>6. \A k \in (IBs \X RuleTypes) \ {k0} : own'[k] = own[k]
  BY ChangeHistory
<1>7. /\ NoOverlap(own'[k0])
      /\ \A r \in own'[k0] : r.from <= clock' /\ (r.until = Open \/ r.until <= clock')
      /\ \A t \in Times, ty \in RuleTypes :
             t < clock' => RateIn(own'[k0], ty, t) = RateIn(own[k0], ty, t)
  BY ChangeHistory
<1>8. own' \in [IBs \X RuleTypes -> SUBSET Rules]
  BY ChangeHistory
<1>9. Typed'
  BY <1>1, <1>2, <1>8 DEF IInv, Typed
<1>10. Past'
  <2>1. ASSUME NEW k \in IBs \X RuleTypes, NEW r \in own'[k]
        PROVE  r.from <= clock' /\ (r.until = Open \/ r.until <= clock')
    <3>1. CASE k = k0
      BY <3>1, <1>7
    <3>2. CASE k # k0
      <4>1. r \in own[k] /\ r \in Rules
        BY <3>2, <1>6, <1>3
      <4>2. r.from <= clock /\ (r.until = Open \/ r.until <= clock)
        BY <4>1 DEF IInv, Past
      <4>3. r.from \in Nat /\ r.until \in Nat
        BY <4>1, TimesAreNumbers DEF Rules
      <4>. QED BY <4>2, <4>3, <1>1, <1>2
    <3>. QED BY <3>1, <3>2
  <2>2. \A e \in Events : event'[e].at <= clock'
    <3>. TAKE e \in Events
    <3>1. event[e].at \in Int /\ event[e].at <= clock
      BY EventTyped
    <3>. QED BY <3>1, <1>1, <1>2
  <2>3. \A e \in Events : direct'[e] # NotYet => Happened(e)'
    BY <1>1 DEF IInv, Past, Happened
  <2>. QED BY <2>1, <2>2, <2>3 DEF Past
<1>11. \A k \in IBs \X RuleTypes : NoOverlap(own'[k])
  BY <1>6, <1>7 DEF IInv
<1>12. RateOfEvent'
  <2>. SUFFICES ASSUME NEW e \in Events, Happened(e)
                PROVE  event[e].rate = RateIn(own'[<<ReferredBy[e], "PER_LOT">>], "PER_LOT", event[e].at)
    BY <1>1 DEF RateOfEvent, Happened, RateAt, RateIn
  <2>1. event[e].at \in Times /\ event[e].at < clock'
    <3>1. event[e].at \in Times /\ event[e].at <= clock
      BY EventTyped DEF Happened
    <3>2. event[e].at \in Nat
      BY <3>1, TimesAreNumbers
    <3>. QED BY <3>1, <3>2, <1>1, <1>2
  <2>2. event[e].rate = RateIn(own[<<ReferredBy[e], "PER_LOT">>], "PER_LOT", event[e].at)
    BY RateAtIs DEF IInv, RateOfEvent
  <2>3. <<ReferredBy[e], "PER_LOT">> \in IBs \X RuleTypes /\ "PER_LOT" \in RuleTypes
    BY AccrualAssumption DEF AccrualAssumption, RuleTypes
  <2>. QED BY <2>1, <2>2, <2>3, <1>6, <1>7
<1>13. AmountAtEventRate'
  BY <1>1 DEF IInv, AmountAtEventRate
<1>. QED BY <1>9, <1>10, <1>11, <1>12, <1>13 DEF IInv

(* A lot that is opened has no obligation yet.                              *)
LEMMA ExecuteStep ==
    ASSUME IInv, NEW e \in Events, NEW qty \in Quantities, Execute(e, qty)
    PROVE  IInv'
<1>. DEFINE rate == RateAt(ReferredBy[e], "PER_LOT", clock')
<1>1. /\ ~Happened(e) /\ clock < MaxClock /\ clock' = clock + 1
      /\ event' = [event EXCEPT ![e] = [at |-> clock', qty |-> qty, rate |-> rate]]
      /\ UNCHANGED <<own, direct>>
  BY DEF Execute
<1>2. clock \in Times /\ clock' \in Times /\ clock \in Nat
  BY <1>1, AccrualAssumption DEF IInv, Typed, Times, AccrualAssumption
<1>3. rate \in Nat
  <2>1. <<ReferredBy[e], "PER_LOT">> \in IBs \X RuleTypes /\ "PER_LOT" \in RuleTypes
    BY AccrualAssumption DEF AccrualAssumption, RuleTypes
  <2>2. own[<<ReferredBy[e], "PER_LOT">>] \in SUBSET Rules
    BY <2>1 DEF IInv, Typed
  <2>. QED BY <2>1, <2>2, RateAtIs, RateInNat
<1>4. event \in [Events -> EventRow] /\ direct[e] = NotYet
  BY <1>1 DEF IInv, Typed, Past
<1>. HIDE DEF rate
<1>5. event' \in [Events -> EventRow] /\ event'[e] = [at |-> clock', qty |-> qty, rate |-> rate]
      /\ \A f \in Events \ {e} : event'[f] = event[f]
  BY <1>1, <1>2, <1>3, <1>4 DEF EventRow
<1>6. Typed'
  BY <1>1, <1>2, <1>5 DEF IInv, Typed
<1>7. Past'
  <2>1. ASSUME NEW k \in IBs \X RuleTypes, NEW r \in own'[k]
        PROVE  r.from <= clock' /\ (r.until = Open \/ r.until <= clock')
    <3>1. r \in own[k] /\ r \in Rules
      BY <1>1 DEF IInv, Typed
    <3>2. r.from <= clock /\ (r.until = Open \/ r.until <= clock)
      BY <3>1 DEF IInv, Past
    <3>3. r.from \in Nat /\ r.until \in Nat
      BY <3>1, TimesAreNumbers DEF Rules
    <3>. QED BY <3>2, <3>3, <1>1, <1>2
  <2>2. \A f \in Events : event'[f].at <= clock'
    <3>. TAKE f \in Events
    <3>1. event[f].at \in Int /\ event[f].at <= clock
      BY EventTyped
    <3>. QED BY <3>1, <1>1, <1>2, <1>5
  <2>3. \A f \in Events : direct'[f] # NotYet => Happened(f)'
    BY <1>1, <1>4, <1>5 DEF IInv, Past, Happened
  <2>. QED BY <2>1, <2>2, <2>3 DEF Past
<1>8. RateOfEvent'
  <2>. SUFFICES ASSUME NEW f \in Events, Happened(f)'
                PROVE  event'[f].rate = RateIn(own[<<ReferredBy[f], "PER_LOT">>], "PER_LOT", event'[f].at)
    BY <1>1 DEF RateOfEvent, RateAt, RateIn
  <2>1. CASE f = e
    <3>1. event'[f].rate = rate /\ event'[f].at = clock'
      BY <2>1, <1>5
    <3>. QED BY <2>1, <3>1, RateAtIs DEF rate
  <2>2. CASE f # e
    <3>1. event'[f] = event[f] /\ Happened(f)
      BY <2>2, <1>5 DEF Happened
    <3>. QED BY <3>1, RateAtIs DEF IInv, RateOfEvent
  <2>. QED BY <2>1, <2>2
<1>9. AmountAtEventRate'
  BY <1>1, <1>4, <1>5 DEF IInv, AmountAtEventRate
<1>10. \A k \in IBs \X RuleTypes : NoOverlap(own'[k])
  BY <1>1 DEF IInv
<1>. QED BY <1>6, <1>7, <1>8, <1>9, <1>10 DEF IInv

(* A sweep, of either kind, generates the obligation of an event.           *)
LEMMA SweepStep ==
    ASSUME IInv, NEW e \in Events, SweepPerLot(e) \/ ProcessExecution(e)
    PROVE  IInv'
<1>1. /\ Happened(e) /\ UNCHANGED <<clock, event, own>>
      /\ direct' = direct \/ direct' = [direct EXCEPT ![e] = DirectAmount(e)]
  <2>1. CASE SweepPerLot(e)
    BY <2>1 DEF SweepPerLot, FirstRows, Recent
  <2>2. CASE ProcessExecution(e)
    <3>1. direct' = [direct EXCEPT ![e] = IF @ = NotYet THEN DirectAmount(e) ELSE @]
      BY <2>2, Zenon DEF ProcessExecution
    <3>2. direct \in [Events -> Nat \cup {NotYet}]
      BY DEF IInv, Typed
    <3>3. e \in FirstRows(Unprocessed) /\ UNCHANGED <<clock, event, own>>
      BY <2>2, Zenon DEF ProcessExecution
    <3>4. Happened(e)
      BY <3>3 DEF FirstRows, Unprocessed
    <3>. QED BY <3>1, <3>2, <3>3, <3>4
  <2>. QED BY <2>1, <2>2
<1>2. CASE direct' = direct
  BY <1>1, <1>2 DEF IInv, Typed, Past, RateOfEvent, RateAt, AmountAtEventRate, Happened
<1>3. CASE direct' = [direct EXCEPT ![e] = DirectAmount(e)]
  <2>. DEFINE due == event[e].qty * event[e].rate
  <2>1. due \in Nat
    <3>1. event[e].qty \in Nat /\ event[e].rate \in Nat
      BY EventTyped
    <3>. QED BY <3>1
  <2>. HIDE DEF due
  <2>2. DirectAmount(e) = NotYet \/ DirectAmount(e) = MoneyRound(due)
    BY <1>1, DirectAmountIs DEF due
  <2>3. /\ DirectAmount(e) \in Nat \cup {NotYet}
        /\ DirectAmount(e) # NotYet => 2 * (DirectAmount(e) * Cent - due) \in -Cent .. Cent
    BY <2>1, <2>2, RoundedToHalf
  <2>4. direct \in [Events -> Nat \cup {NotYet}]
    BY DEF IInv, Typed
  <2>5. /\ direct' \in [Events -> Nat \cup {NotYet}] /\ direct'[e] = DirectAmount(e)
        /\ \A f \in Events \ {e} : direct'[f] = direct[f]
    BY <1>3, <2>3, <2>4
  <2>6. Typed'
    BY <1>1, <2>5 DEF IInv, Typed
  <2>7. Past'
    BY <1>1, <2>5 DEF IInv, Past, Happened
  <2>8. RateOfEvent' /\ \A k \in IBs \X RuleTypes : NoOverlap(own'[k])
    BY <1>1 DEF IInv, RateOfEvent, RateAt, Happened
  <2>9. AmountAtEventRate'
    BY <1>1, <2>3, <2>5 DEF IInv, AmountAtEventRate, due
  <2>. QED BY <2>6, <2>7, <2>8, <2>9 DEF IInv
<1>. QED BY <1>1, <1>2, <1>3

(* Nothing else touches a rate, an event or its obligation but the clock.   *)
LEMMA OtherStep ==
    ASSUME IInv, UNCHANGED <<event, own, direct>>,
           clock' = clock \/ (clock < MaxClock /\ clock' = clock + 1)
    PROVE  IInv'
<1>1. clock \in Times /\ clock' \in Times /\ clock \in Nat /\ clock <= clock'
  BY AccrualAssumption DEF IInv, Typed, Times, AccrualAssumption
<1>2. Typed'
  BY <1>1 DEF IInv, Typed
<1>3. Past'
  <2>1. ASSUME NEW k \in IBs \X RuleTypes, NEW r \in own'[k]
        PROVE  r.from <= clock' /\ (r.until = Open \/ r.until <= clock')
    <3>1. r \in own[k] /\ r \in Rules
      BY DEF IInv, Typed
    <3>2. r.from <= clock /\ (r.until = Open \/ r.until <= clock)
      BY <3>1 DEF IInv, Past
    <3>3. r.from \in Nat /\ r.until \in Nat /\ clock' \in Nat
      BY <1>1, <3>1, TimesAreNumbers DEF Rules
    <3>. QED BY <3>2, <3>3, <1>1
  <2>2. \A e \in Events : event'[e].at <= clock'
    <3>. TAKE e \in Events
    <3>1. event[e].at \in Int /\ event[e].at <= clock /\ clock' \in Nat
      BY <1>1, EventTyped, TimesAreNumbers
    <3>. QED BY <3>1, <1>1
  <2>. QED BY <2>1, <2>2 DEF IInv, Past, Happened
<1>4. RateOfEvent' /\ AmountAtEventRate' /\ \A k \in IBs \X RuleTypes : NoOverlap(own'[k])
  BY DEF IInv, RateOfEvent, AmountAtEventRate, RateAt, Happened
<1>. QED BY <1>2, <1>3, <1>4 DEF IInv

LEMMA InvStep == ASSUME IInv, [Next]_vars PROVE IInv'
<1>1. ASSUME NEW ib \in IBs,
             Freeze(ib) \/ Unfreeze(ib) \/ \E p \in IBs : LinkSubIB(ib, p)
      PROVE  IInv'
  <2>1. UNCHANGED <<event, own, direct>>
        /\ (clock' = clock \/ (clock < MaxClock /\ clock' = clock + 1))
    BY <1>1, Zenon DEF Freeze, Unfreeze, LinkSubIB
  <2>. QED BY <2>1, OtherStep
<1>2. CASE UNCHANGED vars
  BY <1>2, OtherStep DEF vars
<1>. QED BY <1>1, <1>2, ChangeStep, ExecuteStep, SweepStep DEF Next

THEOREM Invariant == Spec => []IInv
  BY InvInit, InvStep, PTL DEF Spec

-----------------------------------------------------------------------------
(* Whenever it is swept, an event is paid at the rate of its own time, to   *)
(* half a cent.                                                             *)
THEOREM PaidAtEventRate == Spec => []AmountAtEventRate
  BY Invariant, PTL DEF IInv

-----------------------------------------------------------------------------
(* Links.                                                                   *)

LinksTyped == parent \in [IBs -> IBs \cup {NoIB}] /\ linkedAt \in [IBs -> Times \cup {NotYet}]

LEMMA LinksStep == LinksTyped /\ IInv /\ [Next]_vars => LinksTyped'
<1>. SUFFICES ASSUME LinksTyped, IInv, [Next]_vars PROVE LinksTyped'
  OBVIOUS
<1>1. ASSUME NEW child \in IBs, NEW p \in IBs, LinkSubIB(child, p) PROVE LinksTyped'
  <2>1. clock' \in Times
    <3>1. clock \in Times /\ clock < MaxClock /\ clock' = clock + 1
      BY <1>1 DEF LinkSubIB, IInv, Typed
    <3>. QED BY <3>1, AccrualAssumption DEF AccrualAssumption, Times
  <2>2. /\ parent' = [parent EXCEPT ![child] = p]
        /\ linkedAt' = [linkedAt EXCEPT ![child] = clock']
    BY <1>1 DEF LinkSubIB
  <2>. QED BY <2>1, <2>2 DEF LinksTyped
<1>2. CASE UNCHANGED <<parent, linkedAt>>
  BY <1>2 DEF LinksTyped
<1>3. UNCHANGED <<parent, linkedAt>> \/ \E child, p \in IBs : LinkSubIB(child, p)
  BY Zenon DEF Next, vars, Freeze, Unfreeze, ChangeRate, Execute, SweepPerLot, ProcessExecution
<1>. QED BY <1>1, <1>2, <1>3

THEOREM LinksInvariant == Spec => []LinksTyped
<1>1. Init => LinksTyped
  BY DEF Init, LinksTyped
<1>. QED BY <1>1, LinksStep, Invariant, PTL DEF Spec

(* What was above an IB at a time that has passed stays above it.           *)
LEMMA AbovePast ==
    ASSUME LinksTyped, IInv, [Next]_vars, NEW i \in IBs, NEW t \in Times, t <= clock
    PROVE  ParentAt(i, t)' = ParentAt(i, t)
<1>1. CASE UNCHANGED <<parent, linkedAt>>
  BY <1>1 DEF ParentAt
<1>2. ASSUME NEW child \in IBs, NEW p \in IBs, LinkSubIB(child, p)
      PROVE  ParentAt(i, t)' = ParentAt(i, t)
  <2>1. /\ parent[child] = NoIB /\ clock < MaxClock /\ clock' = clock + 1
        /\ parent' = [parent EXCEPT ![child] = p]
        /\ linkedAt' = [linkedAt EXCEPT ![child] = clock']
    BY <1>2 DEF LinkSubIB
  <2>2. CASE i = child
    <3>1. ParentAt(i, t) = NoIB
      BY <2>1, <2>2 DEF ParentAt
    <3>2. linkedAt'[i] = clock'
      BY <2>1, <2>2 DEF LinksTyped
    <3>3. t \in Nat /\ clock \in Nat
      BY TimesAreNumbers DEF IInv, Typed
    <3>4. ~(linkedAt'[i] <= t)
      BY <2>1, <3>2, <3>3
    <3>. QED BY <3>1, <3>4 DEF ParentAt
  <2>3. CASE i # child
    BY <2>1, <2>3 DEF ParentAt, LinksTyped
  <2>. QED BY <2>2, <2>3
<1>3. UNCHANGED <<parent, linkedAt>> \/ \E child, p \in IBs : LinkSubIB(child, p)
  BY Zenon DEF Next, vars, Freeze, Unfreeze, ChangeRate, Execute, SweepPerLot, ProcessExecution
<1>. QED BY <1>1, <1>2, <1>3

LEMMA EventStays ==
    ASSUME IInv, [Next]_vars, NEW e \in Events, Happened(e)
    PROVE  event'[e] = event[e]
<1>1. ASSUME NEW f \in Events, NEW qty \in Quantities, Execute(f, qty) PROVE event'[e] = event[e]
  <2>1. e # f
    BY <1>1 DEF Execute
  <2>2. \E row : event' = [event EXCEPT ![f] = row]
    BY <1>1, Zenon DEF Execute
  <2>. QED BY <2>1, <2>2 DEF IInv, Typed
<1>2. UNCHANGED event \/ \E f \in Events, qty \in Quantities : Execute(f, qty)
  BY Zenon DEF Next, vars, Freeze, Unfreeze, ChangeRate, LinkSubIB, SweepPerLot, ProcessExecution
<1>. QED BY <1>1, <1>2

(* The ancestors that share in an event are those of its own time for ever. *)
THEOREM AncestorsStay == Spec => NoRetroactiveShare
<1>1. ASSUME LinksTyped, IInv, [Next]_vars, NEW e \in Events, Happened(e)
      PROVE  Ancestors(ReferredBy[e], event[e].at)' = Ancestors(ReferredBy[e], event[e].at)
  <2>. DEFINE t == event[e].at
  <2>1. t \in Times /\ t <= clock
    BY <1>1, EventTyped DEF Happened
  <2>2. event'[e] = event[e]
    BY <1>1, EventStays
  <2>3. \A i \in IBs : (IF linkedAt'[i] <= t THEN parent'[i] ELSE NoIB) = ParentAt(i, t)
    <3>. TAKE i \in IBs
    <3>1. ASSUME NEW u \in Times, u <= clock
          PROVE  (IF linkedAt'[i] <= u THEN parent'[i] ELSE NoIB) = ParentAt(i, u)
      BY <1>1, <3>1, AbovePast DEF ParentAt
    <3>. QED BY <2>1, <3>1
  <2>4. [i \in IBs |-> (IF linkedAt'[i] <= t THEN parent'[i] ELSE NoIB)]
            = [i \in IBs |-> ParentAt(i, t)]
    BY <2>3
  <2>5. Ancestors(ReferredBy[e], event[e].at)'
            = Chain([i \in IBs |-> (IF linkedAt'[i] <= t THEN parent'[i] ELSE NoIB)], ReferredBy[e])
    BY <2>2 DEF Ancestors, ParentAt
  <2>. QED BY <2>4, <2>5 DEF Ancestors
<1>2. LinksTyped /\ IInv /\ [Next]_vars =>
        [\A e \in Events : Happened(e) =>
            Ancestors(ReferredBy[e], event[e].at)' = Ancestors(ReferredBy[e], event[e].at)]_vars
  BY <1>1
<1>. QED BY <1>2, LinksInvariant, Invariant, PTL DEF Spec, NoRetroactiveShare

-----------------------------------------------------------------------------
(* Chains of links.  The ancestors of an IB are, without recursion, what is *)
(* in every set that holds its parent and the parent of each of its members.*)

Above == [IBs -> IBs \cup {NoIB}]

Closed(above, S) == \A i \in S : above[i] # NoIB => above[i] \in S

Up(above, i) ==
    {x \in IBs : /\ above[i] # NoIB
                 /\ \A S \in SUBSET IBs : above[i] \in S /\ Closed(above, S) => x \in S}

Acyclic(above) == \A i \in IBs : i \notin Up(above, i)

LEMMA IBsFinite == IsFiniteSet(IBs) /\ Cardinality(IBs) \in Nat /\ NoIB \notin IBs
  BY AccrualAssumption, FS_CardinalityType DEF AccrualAssumption

LEMMA UpClosed ==
    ASSUME NEW above \in Above, NEW i \in IBs
    PROVE  /\ Up(above, i) \in SUBSET IBs
           /\ Closed(above, Up(above, i))
           /\ above[i] # NoIB => above[i] \in Up(above, i)
<1>1. ASSUME NEW x \in Up(above, i), above[x] # NoIB PROVE above[x] \in Up(above, i)
  <2>1. x \in IBs /\ above[i] # NoIB /\ above[x] \in IBs
    BY <1>1 DEF Up, Above
  <2>2. ASSUME NEW S \in SUBSET IBs, above[i] \in S, Closed(above, S) PROVE above[x] \in S
    BY <1>1, <2>2 DEF Up, Closed
  <2>. QED BY <2>1, <2>2 DEF Up
<1>. QED BY <1>1 DEF Up, Closed, Above

LEMMA UpLeast ==
    ASSUME NEW above \in Above, NEW i \in IBs, NEW S \in SUBSET IBs, Closed(above, S),
           above[i] # NoIB => above[i] \in S
    PROVE  Up(above, i) \subseteq S
  BY DEF Up

LEMMA UpStep ==
    ASSUME NEW above \in Above, NEW i \in IBs, above[i] # NoIB
    PROVE  above[i] \in IBs /\ Up(above, i) = {above[i]} \cup Up(above, above[i])
<1>1. above[i] \in IBs
  BY DEF Above
<1>. DEFINE T == {above[i]} \cup Up(above, above[i])
<1>2. T \in SUBSET IBs /\ Closed(above, T)
  BY <1>1, UpClosed DEF Closed
<1>3. Up(above, i) \subseteq T
  BY <1>2, UpLeast
<1>4. above[i] \in Up(above, i) /\ Closed(above, Up(above, i)) /\ Up(above, i) \in SUBSET IBs
  BY UpClosed
<1>5. Up(above, above[i]) \subseteq Up(above, i)
  BY <1>1, <1>4, UpLeast DEF Closed
<1>. QED BY <1>1, <1>3, <1>4, <1>5

LEMMA UpTransitive ==
    ASSUME NEW above \in Above, NEW i \in IBs, NEW x \in Up(above, i)
    PROVE  Up(above, x) \subseteq Up(above, i)
<1>1. x \in IBs /\ Closed(above, Up(above, i)) /\ Up(above, i) \in SUBSET IBs
  BY UpClosed
<1>. QED BY <1>1, UpLeast DEF Closed

LEMMA UpSize ==
    ASSUME NEW above \in Above, NEW i \in IBs
    PROVE  /\ IsFiniteSet(Up(above, i)) /\ Cardinality(Up(above, i)) \in 0 .. Cardinality(IBs)
           /\ Acyclic(above) /\ above[i] # NoIB =>
                  Cardinality(Up(above, i)) = Cardinality(Up(above, above[i])) + 1
<1>1. \A k \in IBs : /\ IsFiniteSet(Up(above, k))
                     /\ Cardinality(Up(above, k)) \in 0 .. Cardinality(IBs)
  <2>. TAKE k \in IBs
  <2>1. Up(above, k) \in SUBSET IBs
    BY UpClosed
  <2>. QED BY <2>1, IBsFinite, FS_Subset, FS_CardinalityType
<1>2. ASSUME Acyclic(above), above[i] # NoIB
      PROVE  Cardinality(Up(above, i)) = Cardinality(Up(above, above[i])) + 1
  <2>1. above[i] \in IBs /\ Up(above, i) = {above[i]} \cup Up(above, above[i])
    BY <1>2, UpStep
  <2>2. above[i] \notin Up(above, above[i]) /\ IsFiniteSet(Up(above, above[i]))
    BY <1>1, <1>2, <2>1 DEF Acyclic
  <2>3. Cardinality(Up(above, above[i]) \cup {above[i]}) = Cardinality(Up(above, above[i])) + 1
    BY <2>2, FS_AddElement
  <2>4. Up(above, i) = Up(above, above[i]) \cup {above[i]}
    BY <2>1
  <2>. QED BY <2>3, <2>4, Zenon
<1>. QED BY <1>1, <1>2

(* What Chain is computed by.                                               *)
ChainStep(above, up, n, i) ==
    IF n = 0 \/ above[i] = NoIB THEN <<>> ELSE <<above[i]>> \o up[n - 1][above[i]]

LEMMA ChainIs ==
    ASSUME NEW above \in Above
    PROVE  \E up \in [0 .. Cardinality(IBs) -> [IBs -> Seq(IBs)]] :
               /\ \A n \in 0 .. Cardinality(IBs), i \in IBs :
                      up[n][i] = ChainStep(above, up, n, i)
               /\ \A i \in IBs : Chain(above, i) = up[Cardinality(IBs)][i]
<1>. DEFINE N == Cardinality(IBs)
            X == [IBs -> Seq(IBs)]
            none == [i \in IBs |-> <<>>]
            G == [u \in X |-> [i \in IBs |-> IF above[i] = NoIB THEN <<>> ELSE <<above[i]>> \o u[above[i]]]]
            Rec(up) == [n \in 0 .. N |-> [i \in IBs |-> ChainStep(above, up, n, i)]]
<1>1. none \in X
  OBVIOUS
<1>2. G \in [X -> X]
  <2>. SUFFICES ASSUME NEW u \in X, NEW i \in IBs, above[i] # NoIB
                PROVE  <<above[i]>> \o u[above[i]] \in Seq(IBs)
    OBVIOUS
  <2>1. above[i] \in IBs
    BY DEF Above
  <2>. QED BY <2>1
<1>3. PICK f \in [0 .. N -> X] : Iterates(f, N, none, G)
  <2>. HIDE DEF X, none, G
  <2>1. N \in Nat
    BY IBsFinite
  <2>. HIDE DEF N
  <2>. QED BY <1>1, <1>2, <2>1, Iteration
<1>4. f = Rec(f)
  <2>1. ASSUME NEW n \in 0 .. N
        PROVE  f[n] = [i \in IBs |-> ChainStep(above, f, n, i)]
    <3>1. CASE n = 0
      <4>1. \A i \in IBs : ChainStep(above, f, 0, i) = <<>>
        BY DEF ChainStep
      <4>2. f[0] = none
        BY <1>3 DEF Iterates
      <4>. QED BY <3>1, <4>1, <4>2
    <3>2. CASE n # 0
      <4>1. n \in 1 .. N /\ n - 1 \in 0 .. N
        BY <3>2, IBsFinite
      <4>2. f[n - 1] \in X /\ f[n] = G[f[n - 1]]
        BY <1>3, <4>1 DEF Iterates
      <4>3. G[f[n - 1]] = [i \in IBs |-> IF above[i] = NoIB THEN <<>>
                                          ELSE <<above[i]>> \o f[n - 1][above[i]]]
        BY <4>2
      <4>. QED BY <3>2, <4>2, <4>3 DEF ChainStep
    <3>. QED BY <3>1, <3>2
  <2>2. f \in [0 .. N -> X]
    BY <1>3
  <2>. HIDE DEF X
  <2>. QED BY <2>1, <2>2
<1>. DEFINE up == CHOOSE up : up = Rec(up)
<1>5. up = Rec(up)
  <2>. HIDE DEF Rec
  <2>. QED BY <1>4, Zenon
<1>6. \A i \in IBs : Chain(above, i) = up[N][i]
  BY Zenon DEF Chain, ChainStep
<1>. HIDE DEF up
<1>r. \A n \in 0 .. N : up[n] = [i \in IBs |-> ChainStep(above, up, n, i)]
  BY <1>5, Zenon
<1>7. \A n \in 0 .. N, i \in IBs : up[n][i] = ChainStep(above, up, n, i)
  BY <1>r, Zenon
<1>8. up \in [0 .. N -> X]
  <2>. DEFINE P == {n \in 0 .. N : up[n] \in X}
  <2>1. 0 \in P
    <3>0. 0 \in 0 .. N
      BY IBsFinite
    <3>1. up[0] = [i \in IBs |-> <<>>]
      <4>1. \A i \in IBs : ChainStep(above, up, 0, i) = <<>>
        BY DEF ChainStep
      <4>. QED BY <1>r, <3>0, <4>1
    <3>2. up[0] \in X
      BY <1>1, <3>1
    <3>. QED BY <3>0, <3>2
  <2>2. ASSUME NEW n \in 1 .. N, n - 1 \in P PROVE n \in P
    <3>1. up[n - 1] \in X /\ n \in 0 .. N /\ n # 0
      BY <2>2, IBsFinite
    <3>2. up[n] = [i \in IBs |-> IF above[i] = NoIB THEN <<>>
                                  ELSE <<above[i]>> \o up[n - 1][above[i]]]
      BY <1>r, <3>1 DEF ChainStep
    <3>3. up[n] = G[up[n - 1]]
      BY <3>1, <3>2
    <3>. HIDE DEF G, X
    <3>. QED BY <1>2, <3>1, <3>3
  <2>3. 0 .. N \subseteq P
    <3>. HIDE DEF P
    <3>. QED BY <2>1, <2>2, IBsFinite, UpTo
  <2>. QED BY <1>5, <2>3
<1>. QED BY <1>6, <1>7, <1>8

LEMMA RangeCons ==
    ASSUME NEW s \in Seq(IBs), NEW j \in IBs
    PROVE  /\ <<j>> \o s \in Seq(IBs) /\ Len(<<j>> \o s) = Len(s) + 1
           /\ Range(<<j>> \o s) = {j} \cup Range(s)
<1>. DEFINE t == <<j>> \o s
<1>1. /\ t \in Seq(IBs) /\ Len(t) = Len(s) + 1 /\ Len(s) \in Nat
      /\ t[1] = j /\ \A k \in 1 .. Len(s) : t[k + 1] = s[k]
  OBVIOUS
<1>2. DOMAIN t = 1 .. Len(s) + 1 /\ DOMAIN s = 1 .. Len(s)
  BY <1>1
<1>. HIDE DEF t
<1>3. Range(t) = {t[k] : k \in 1 .. Len(s) + 1} /\ Range(s) = {s[k] : k \in 1 .. Len(s)}
  BY <1>2 DEF Range
<1>4. \A k \in 1 .. Len(s) + 1 : k # 1 => k - 1 \in 1 .. Len(s) /\ t[k] = s[k - 1]
  <2>. TAKE k \in 1 .. Len(s) + 1
  <2>. SUFFICES ASSUME k # 1 PROVE k - 1 \in 1 .. Len(s) /\ t[k] = s[k - 1]
    OBVIOUS
  <2>1. k - 1 \in 1 .. Len(s) /\ (k - 1) + 1 = k
    BY <1>1
  <2>2. t[(k - 1) + 1] = s[k - 1]
    BY <1>1, <2>1, Zenon
  <2>3. t[k] = s[k - 1]
    BY <2>1, <2>2, Zenon
  <2>. QED BY <2>1, <2>3, Zenon
<1>5. ASSUME NEW k \in 1 .. Len(s) + 1 PROVE t[k] \in {j} \cup Range(s)
  <2>1. CASE k = 1
    BY <1>1, <2>1
  <2>2. CASE k # 1
    <3>1. k - 1 \in 1 .. Len(s) /\ t[k] = s[k - 1]
      BY <1>4, <2>2
    <3>2. s[k - 1] \in Range(s)
      BY <1>3, <3>1
    <3>. QED BY <3>1, <3>2
  <2>. QED BY <2>1, <2>2
<1>6. ASSUME NEW k \in 1 .. Len(s) PROVE s[k] \in Range(t)
  <2>1. k + 1 \in 1 .. Len(s) + 1 /\ t[k + 1] = s[k]
    BY <1>1
  <2>. QED BY <1>3, <2>1
<1>7. j \in Range(t)
  <2>1. 1 \in 1 .. Len(s) + 1 /\ t[1] = j
    BY <1>1
  <2>. QED BY <1>3, <2>1
<1>8. Range(t) = {j} \cup Range(s)
  BY <1>3, <1>5, <1>6, <1>7
<1>. QED BY <1>1, <1>8 DEF t

(* The bound on the length of a chain leaves out nobody, without cycles.    *)
LEMMA ChainHolds ==
    ASSUME NEW above \in Above, NEW i \in IBs
    PROVE  /\ Chain(above, i) \in Seq(IBs) /\ Len(Chain(above, i)) <= Cardinality(IBs)
           /\ Acyclic(above) => Range(Chain(above, i)) = Up(above, i)
<1>. DEFINE N == Cardinality(IBs)
<1>1. PICK up \in [0 .. N -> [IBs -> Seq(IBs)]] :
          /\ \A n \in 0 .. N, k \in IBs : up[n][k] = ChainStep(above, up, n, k)
          /\ \A k \in IBs : Chain(above, k) = up[N][k]
  BY ChainIs
<1>n. N \in Nat
  BY IBsFinite
<1>. HIDE DEF N
<1>. DEFINE Good(n) == \A k \in IBs :
                /\ Len(up[n][k]) <= n
                /\ Acyclic(above) /\ Cardinality(Up(above, k)) <= n =>
                       Range(up[n][k]) = Up(above, k)
            P == {n \in 0 .. N : Good(n)}
<1>2. 0 \in P
  <2>1. 0 \in 0 .. N
    BY <1>n
  <2>2. ASSUME NEW k \in IBs
        PROVE  /\ Len(up[0][k]) <= 0
               /\ Acyclic(above) /\ Cardinality(Up(above, k)) <= 0 =>
                      Range(up[0][k]) = Up(above, k)
    <3>1. up[0][k] = <<>>
      BY <1>1, <2>1 DEF ChainStep
    <3>2. Len(<<>>) = 0 /\ Range(<<>>) = {}
      BY DEF Range
    <3>3. Cardinality(Up(above, k)) <= 0 => Up(above, k) = {}
      <4>1. IsFiniteSet(Up(above, k)) /\ Cardinality(Up(above, k)) \in Nat
        BY UpSize, FS_CardinalityType
      <4>2. Cardinality(Up(above, k)) = 0 => Up(above, k) = {}
        BY <4>1, FS_EmptySet
      <4>. QED BY <4>1, <4>2
    <3>4. Len(up[0][k]) = 0 /\ Range(up[0][k]) = {}
      BY <3>1, <3>2, Zenon
    <3>. HIDE DEF P
    <3>. QED BY <3>3, <3>4
  <2>. QED BY <2>1, <2>2
<1>3. ASSUME NEW n \in 1 .. N, n - 1 \in P PROVE n \in P
  <2>1. n \in 0 .. N /\ n - 1 \in 0 .. N /\ n # 0 /\ n \in Nat /\ Good(n - 1)
    BY <1>3, <1>n
  <2>2. ASSUME NEW k \in IBs
        PROVE  /\ Len(up[n][k]) <= n
               /\ Acyclic(above) /\ Cardinality(Up(above, k)) <= n =>
                      Range(up[n][k]) = Up(above, k)
    <3>1. CASE above[k] = NoIB
      <4>1. up[n][k] = <<>> /\ Up(above, k) = {}
        BY <1>1, <2>1, <3>1 DEF ChainStep, Up
      <4>2. Len(<<>>) = 0 /\ Range(<<>>) = {}
        BY DEF Range
      <4>. QED BY <2>1, <4>1, <4>2
    <3>2. CASE above[k] # NoIB
      <4>. DEFINE j == above[k]
                  s == up[n - 1][j]
      <4>1. j \in IBs /\ Up(above, k) = {j} \cup Up(above, j)
        BY <3>2, UpStep
      <4>2. up[n][k] = <<j>> \o s /\ s \in Seq(IBs)
        <5>1. up[n][k] = ChainStep(above, up, n, k)
          BY <1>1, <2>1
        <5>2. up[n - 1] \in [IBs -> Seq(IBs)]
          BY <1>1, <2>1
        <5>. QED BY <2>1, <3>2, <4>1, <5>1, <5>2 DEF ChainStep
      <4>3. Len(s) <= n - 1
        BY <2>1, <4>1
      <4>4. Acyclic(above) /\ Cardinality(Up(above, j)) <= n - 1 => Range(s) = Up(above, j)
        BY <2>1, <4>1
      <4>5. Acyclic(above) => Cardinality(Up(above, k)) = Cardinality(Up(above, j)) + 1
        BY <3>2, UpSize
      <4>6. Cardinality(Up(above, j)) \in Nat
        BY <4>1, UpSize, IBsFinite
      <4>. HIDE DEF j, s
      <4>7. /\ Len(<<j>> \o s) = Len(s) + 1 /\ Range(<<j>> \o s) = {j} \cup Range(s)
            /\ Len(s) \in Nat
        BY <4>1, <4>2, RangeCons
      <4>8. Len(up[n][k]) <= n
        BY <2>1, <4>2, <4>3, <4>7
      <4>9. ASSUME Acyclic(above), Cardinality(Up(above, k)) <= n
            PROVE  Range(up[n][k]) = Up(above, k)
        <5>1. Cardinality(Up(above, j)) <= n - 1
          BY <2>1, <4>5, <4>6, <4>9
        <5>2. Range(s) = Up(above, j)
          BY <4>4, <4>9, <5>1
        <5>. QED BY <4>1, <4>2, <4>7, <5>2
      <4>. QED BY <4>8, <4>9
    <3>. QED BY <3>1, <3>2
  <2>. QED BY <2>1, <2>2
<1>4. 0 .. N \subseteq P
  <2>. HIDE DEF P
  <2>. QED BY <1>2, <1>3, <1>n, UpTo
<1>5. Good(N) /\ N \in 0 .. N
  BY <1>4, <1>n
<1>6. Cardinality(Up(above, i)) <= N
  BY UpSize, IBsFinite DEF N
<1>7. Chain(above, i) = up[N][i] /\ up[N][i] \in Seq(IBs)
  BY <1>1, <1>5
<1>. QED BY <1>5, <1>6, <1>7 DEF N

(* A link from an IB who has none, to one he is not above, closes no cycle. *)
LEMMA LinkKeepsAcyclic ==
    ASSUME NEW above \in Above, Acyclic(above), NEW child \in IBs, NEW p \in IBs,
           above[child] = NoIB, child # p, child \notin Up(above, p)
    PROVE  Acyclic([above EXCEPT ![child] = p])
<1>. DEFINE new == [above EXCEPT ![child] = p]
<1>1. new \in Above /\ new[child] = p /\ \A k \in IBs \ {child} : new[k] = above[k]
  BY DEF Above
<1>. HIDE DEF new
<1>2. p # NoIB /\ Up(above, child) = {}
  BY IBsFinite DEF Up
<1>3. ASSUME NEW i \in IBs PROVE i \notin Up(new, i)
  <2>. DEFINE T == {p} \cup Up(above, p)
  <2>1. T \in SUBSET IBs /\ Closed(above, T) /\ child \notin T
    BY UpClosed DEF Closed
  <2>. HIDE DEF T
  <2>2. Closed(new, T)
    BY <1>1, <2>1 DEF Closed
  <2>3. CASE child = i
    <3>1. Up(new, i) \subseteq T
      BY <1>1, <2>1, <2>2, <2>3, UpLeast DEF T
    <3>. QED BY <2>1, <2>3, <3>1
  <2>4. CASE child # i
    <3>. DEFINE U == Up(above, i)
    <3>1. U \in SUBSET IBs /\ Closed(above, U) /\ (above[i] # NoIB => above[i] \in U) /\ i \notin U
      BY UpClosed DEF Acyclic
    <3>2. CASE child \notin U
      <4>1. Closed(new, U)
        BY <1>1, <3>1, <3>2 DEF Closed
      <4>2. Up(new, i) \subseteq U
        BY <1>1, <2>4, <3>1, <4>1, UpLeast
      <4>. QED BY <3>1, <4>2
    <3>3. CASE child \in U
      <4>1. i \notin T
        <5>1. i # p
          BY <3>3
        <5>2. i \in Up(above, p) => U \subseteq Up(above, p)
          BY UpTransitive
        <5>. QED BY <3>3, <5>1, <5>2 DEF T
      <4>. HIDE DEF U
      <4>2. U \cup T \in SUBSET IBs /\ i \notin U \cup T
        BY <2>1, <3>1, <4>1
      <4>3. p \in T
        BY DEF T
      <4>4. Closed(new, U \cup T)
        BY <1>1, <2>2, <3>1, <4>3 DEF Closed
      <4>5. new[i] # NoIB => new[i] \in U \cup T
        BY <1>1, <2>4, <3>1
      <4>6. Up(new, i) \subseteq U \cup T
        BY <1>1, <4>2, <4>4, <4>5, UpLeast
      <4>. QED BY <4>2, <4>6
    <3>. QED BY <3>2, <3>3
  <2>. QED BY <2>3, <2>4
<1>. QED BY <1>3 DEF Acyclic, new

(* Every link was made by now, so the ancestors of today are all of them.   *)
LinksPast == \A i \in IBs : linkedAt[i] <= clock

NetInv == LinksTyped /\ LinksPast /\ Acyclic(parent)

LEMMA AncestorsNow ==
    ASSUME NetInv, NEW i \in IBs
    PROVE  Range(Ancestors(i, clock)) = Up(parent, i)
<1>1. parent \in Above /\ Acyclic(parent)
  BY DEF NetInv, LinksTyped, Above
<1>2. [k \in IBs |-> ParentAt(k, clock)] = parent
  BY DEF NetInv, LinksTyped, LinksPast, ParentAt
<1>3. Ancestors(i, clock) = Chain(parent, i)
  BY <1>2, Zenon DEF Ancestors
<1>. QED BY <1>1, <1>3, ChainHolds

LEMMA NetInit == Init => NetInv
<1>. SUFFICES ASSUME Init PROVE NetInv
  OBVIOUS
<1>1. LinksTyped /\ LinksPast
  BY DEF Init, LinksTyped, LinksPast, NotYet
<1>2. Acyclic(parent)
  BY DEF Init, Acyclic, Up
<1>. QED BY <1>1, <1>2 DEF NetInv

LEMMA NetStep == ASSUME NetInv, IInv, [Next]_vars PROVE NetInv'
<1>1. LinksTyped'
  BY LinksStep DEF NetInv
<1>2. clock \in Int /\ clock' \in Int /\ clock <= clock'
  <2>1. clock \in Nat
    BY TimesAreNumbers DEF IInv, Typed
  <2>2. clock' = clock \/ clock' = clock + 1
    BY Zenon DEF Next, vars, Freeze, Unfreeze, ChangeRate, LinkSubIB, Execute, SweepPerLot,
                 ProcessExecution
  <2>. QED BY <2>1, <2>2
<1>t. \A i \in IBs : linkedAt[i] \in Int /\ linkedAt[i] <= clock
  <2>1. Times \cup {NotYet} \subseteq Int
    BY TimesAreNumbers DEF NotYet
  <2>. QED BY <2>1 DEF NetInv, LinksTyped, LinksPast
<1>3. CASE UNCHANGED <<parent, linkedAt>>
  <2>1. LinksPast'
    BY <1>2, <1>3, <1>t DEF LinksPast
  <2>2. Acyclic(parent')
    BY <1>3 DEF NetInv
  <2>. QED BY <1>1, <2>1, <2>2 DEF NetInv
<1>4. ASSUME NEW child \in IBs, NEW p \in IBs, LinkSubIB(child, p) PROVE NetInv'
  <2>1. /\ parent[child] = NoIB /\ child # p /\ ~IsAncestor(child, p)
        /\ parent' = [parent EXCEPT ![child] = p]
        /\ linkedAt' = [linkedAt EXCEPT ![child] = clock']
    BY <1>4 DEF LinkSubIB
  <2>2. child \notin Up(parent, p)
    BY <2>1, AncestorsNow DEF IsAncestor
  <2>3. Acyclic(parent')
    BY <2>1, <2>2, LinkKeepsAcyclic DEF NetInv, LinksTyped, Above
  <2>4. LinksPast'
    BY <1>2, <1>t, <2>1 DEF LinksPast, NetInv, LinksTyped
  <2>. QED BY <1>1, <2>3, <2>4 DEF NetInv
<1>5. UNCHANGED <<parent, linkedAt>> \/ \E child, p \in IBs : LinkSubIB(child, p)
  BY Zenon DEF Next, vars, Freeze, Unfreeze, ChangeRate, Execute, SweepPerLot, ProcessExecution
<1>. QED BY <1>3, <1>4, <1>5

THEOREM NetworkInvariant == Spec => []NetInv
  BY NetInit, NetStep, Invariant, PTL DEF Spec

(* Whatever links are made in whatever order, nobody is above himself.      *)
THEOREM LinksHaveNoCycles == Spec => []NoCycles
<1>1. NetInv => NoCycles
  BY AncestorsNow DEF NetInv, Acyclic, NoCycles, IsAncestor
<1>. QED BY <1>1, NetworkInvariant, PTL

-----------------------------------------------------------------------------
(* What a network costs.                                                    *)

LEMMA DivisorType == \A n \in 0 .. Cardinality(IBs) : Divisor[n] \in Nat \ {0}
<1>. DEFINE N == Cardinality(IBs)
            X == Nat \ {0}
            G == [x \in X |-> 2 * x]
            Rec(d) == [n \in 0 .. N |-> IF n = 0 THEN 1 ELSE 2 * d[n - 1]]
<1>n. N \in Nat
  BY IBsFinite
<1>1. 1 \in X /\ G \in [X -> X]
  OBVIOUS
<1>2. PICK f \in [0 .. N -> X] : Iterates(f, N, 1, G)
  <2>. HIDE DEF N, X, G
  <2>. QED BY <1>n, <1>1, Iteration
<1>. HIDE DEF N
<1>3. f = Rec(f)
  <2>1. ASSUME NEW n \in 0 .. N PROVE f[n] = IF n = 0 THEN 1 ELSE 2 * f[n - 1]
    <3>1. CASE n = 0
      BY <1>2, <3>1 DEF Iterates
    <3>2. CASE n # 0
      <4>1. n \in 1 .. N /\ n - 1 \in 0 .. N
        BY <1>n, <3>2
      <4>. QED BY <1>2, <3>2, <4>1 DEF Iterates
    <3>. QED BY <3>1, <3>2
  <2>. QED BY <2>1
<1>4. Divisor = Rec(Divisor)
  <2>1. Divisor = CHOOSE d : d = Rec(d)
    BY Zenon DEF Divisor, N
  <2>. HIDE DEF Rec
  <2>. QED BY <1>3, <2>1, Zenon
<1>. DEFINE P == {n \in 0 .. N : Divisor[n] \in X}
<1>d. \A n \in 0 .. N : Divisor[n] = IF n = 0 THEN 1 ELSE 2 * Divisor[n - 1]
  BY <1>4, Zenon
<1>5. 0 \in P
  BY <1>d, <1>n
<1>6. ASSUME NEW n \in 1 .. N, n - 1 \in P PROVE n \in P
  <2>1. n \in 0 .. N /\ n # 0
    BY <1>n
  <2>2. PICK d \in Nat \ {0} : d = Divisor[n - 1]
    BY <1>6
  <2>3. Divisor[n] = 2 * d
    BY <1>d, <2>1, <2>2, Zenon
  <2>4. 2 * d \in Nat \ {0}
    OBVIOUS
  <2>. QED BY <2>1, <2>3, <2>4
<1>7. 0 .. N \subseteq P
  <2>. HIDE DEF P
  <2>. QED BY <1>5, <1>6, <1>n, UpTo
<1>. QED BY <1>7 DEF N

LEMMA DivNat == ASSUME NEW x \in Nat, NEW y \in Nat \ {0} PROVE x \div y \in Nat
  OBVIOUS

LEMMA TimesNat == ASSUME NEW x \in Nat, NEW y \in Nat PROVE x * y \in Nat
  OBVIOUS

LEMMA RateNat ==
    ASSUME IInv, NEW ib \in IBs, NEW type \in RuleTypes, NEW t
    PROVE  RateAt(ib, type, t) \in Nat
<1>1. own[<<ib, type>>] \in SUBSET Rules
  BY DEF IInv, Typed
<1>. QED BY <1>1, RateAtIs, RateInNat

LEMMA AskedNat ==
    ASSUME IInv, NEW e \in Events, NEW up \in Seq(IBs), Len(up) <= Cardinality(IBs),
           NEW n \in DOMAIN up
    PROVE  Asked(e, up, n) \in Nat
<1>1. up[n] \in IBs /\ n - 1 \in 0 .. Cardinality(IBs)
  BY IBsFinite
<1>2. RateAt(up[n], "SUB_IB_PER_LOT", event[e].at) \in Nat
  BY <1>1, RateNat DEF RuleTypes
<1>3. RateAt(up[n], "SUB_IB_PER_LOT", event[e].at) * event[e].qty \in Nat
  BY <1>2, EventTyped, TimesNat
<1>4. Divisor[n - 1] \in Nat \ {0}
  BY <1>1, DivisorType
<1>5. (RateAt(up[n], "SUB_IB_PER_LOT", event[e].at) * event[e].qty) \div Divisor[n - 1] \in Nat
  BY <1>3, <1>4, DivNat
<1>. QED BY <1>5, Zenon DEF Asked

(* Each level gets what it asks for as far as the ones below have left it.  *)
LEMMA Capped ==
    ASSUME NEW K \in Nat, NEW B \in Nat, NEW ask, NEW got,
           \A n \in 1 .. K : ask[n] \in Nat,
           \A n \in 1 .. K :
               got[n] = IF SumFunctionOnSet(ask, 1 .. n - 1) >= B THEN 0
                        ELSE Lesser(ask[n], B - SumFunctionOnSet(ask, 1 .. n - 1))
    PROVE  /\ \A n \in 1 .. K : got[n] \in Nat
           /\ SumFunctionOnSet(got, 1 .. K) <= B
<1>f. IsFiniteSet(1 .. K)
  BY FS_Interval
<1>a. \A n \in 0 .. K : SumFunctionOnSet(ask, 1 .. n) \in Nat
  <2>1. \A T \in SUBSET (1 .. K) : SumFunctionOnSet(ask, T) \in Nat
    BY <1>f, SumNat
  <2>2. \A n \in 0 .. K : 1 .. n \in SUBSET (1 .. K)
    OBVIOUS
  <2>. QED BY <2>1, <2>2
<1>g. ASSUME NEW n \in 1 .. K
      PROVE  /\ got[n] \in Nat /\ got[n] <= ask[n]
             /\ got[n] = 0 \/ got[n] <= B - SumFunctionOnSet(ask, 1 .. n - 1)
  <2>1. n - 1 \in 0 .. K
    OBVIOUS
  <2>2. PICK below \in Nat : below = SumFunctionOnSet(ask, 1 .. n - 1)
    BY <1>a, <2>1
  <2>3. got[n] = IF below >= B THEN 0 ELSE Lesser(ask[n], B - below)
    BY <2>2
  <2>4. ask[n] \in Nat
    OBVIOUS
  <2>. QED BY <2>2, <2>3, <2>4 DEF Lesser
<1>t. \A n \in 0 .. K : SumFunctionOnSet(got, 1 .. n) \in Nat
  <2>1. \A T \in SUBSET (1 .. K) : SumFunctionOnSet(got, T) \in Nat
    BY <1>f, <1>g, SumNat
  <2>2. \A n \in 0 .. K : 1 .. n \in SUBSET (1 .. K)
    OBVIOUS
  <2>. QED BY <2>1, <2>2
<1>. DEFINE P == {n \in 0 .. K : /\ SumFunctionOnSet(got, 1 .. n) <= B
                                 /\ SumFunctionOnSet(got, 1 .. n) <= SumFunctionOnSet(ask, 1 .. n)}
<1>1. 0 \in P
  <2>1. 1 .. 0 = {}
    OBVIOUS
  <2>2. SumFunctionOnSet(got, 1 .. 0) = 0 /\ SumFunctionOnSet(ask, 1 .. 0) = 0
    BY <2>1, SumEmpty, Zenon
  <2>. QED BY <2>2
<1>2. ASSUME NEW n \in 1 .. K, n - 1 \in P PROVE n \in P
  <2>1. 1 .. n \subseteq 1 .. K /\ n - 1 \in 0 .. K /\ n \in 0 .. K /\ n \in Nat \ {0}
    OBVIOUS
  <2>2. \A k \in 1 .. n : got[k] \in Int /\ ask[k] \in Int
    BY <1>g, <2>1
  <2>4. /\ SumFunctionOnSet(got, 1 .. n) = SumFunctionOnSet(got, 1 .. n - 1) + got[n]
        /\ SumFunctionOnSet(ask, 1 .. n) = SumFunctionOnSet(ask, 1 .. n - 1) + ask[n]
    BY <2>1, <2>2, SumFirst
  <2>5. PICK a \in Nat, g \in Nat : /\ a = SumFunctionOnSet(ask, 1 .. n - 1)
                                    /\ g = SumFunctionOnSet(got, 1 .. n - 1)
    BY <1>a, <1>t, <2>1
  <2>6. g <= B /\ g <= a
    BY <1>2, <2>5
  <2>7. /\ got[n] \in Nat /\ ask[n] \in Nat /\ got[n] <= ask[n]
        /\ got[n] = 0 \/ got[n] <= B - a
    BY <1>g, <2>5
  <2>8. g + got[n] <= B /\ g + got[n] <= a + ask[n]
    BY <2>6, <2>7
  <2>. QED BY <2>1, <2>4, <2>5, <2>8
<1>3. 0 .. K \subseteq P
  <2>. HIDE DEF P
  <2>. QED BY <1>1, <1>2, UpTo
<1>4. K \in P
  BY <1>3
<1>. QED BY <1>4, <1>g

Budget(e) == event[e].qty * RateAt(ReferredBy[e], "SUB_IB_BUDGET", event[e].at)

LEMMA BudgetNat == ASSUME IInv, NEW e \in Events PROVE Budget(e) \in Nat
<1>1. ReferredBy[e] \in IBs
  BY AccrualAssumption DEF AccrualAssumption
<1>2. RateAt(ReferredBy[e], "SUB_IB_BUDGET", event[e].at) \in Nat
  BY <1>1, RateNat DEF RuleTypes
<1>3. event[e].qty * RateAt(ReferredBy[e], "SUB_IB_BUDGET", event[e].at) \in Nat
  BY <1>2, EventTyped, TimesNat
<1>. QED BY <1>3, Zenon DEF Budget

(* The levels of a chain together get at most the budget.                   *)
LEMMA SharesWithinBudget ==
    ASSUME IInv, NEW e \in Events, NEW up \in Seq(IBs), Len(up) <= Cardinality(IBs)
    PROVE  /\ \A n \in DOMAIN up : Share(e, up, n) \in Nat
           /\ SumFunctionOnSet([n \in DOMAIN up |-> Share(e, up, n)], DOMAIN up) <= Budget(e)
<1>. DEFINE K == Len(up)
            B == Budget(e)
            ask == [m \in DOMAIN up |-> Asked(e, up, m)]
            got == [n \in DOMAIN up |-> Share(e, up, n)]
<1>1. K \in Nat /\ DOMAIN up = 1 .. K /\ B \in Nat
  BY BudgetNat
<1>2. \A n \in 1 .. K : ask[n] \in Nat
  BY <1>1, AskedNat
<1>3. RateAt(ReferredBy[e], "SUB_IB_BUDGET", event[e].at) * event[e].qty = B
  <2>1. ReferredBy[e] \in IBs
    BY AccrualAssumption DEF AccrualAssumption
  <2>2. RateAt(ReferredBy[e], "SUB_IB_BUDGET", event[e].at) \in Nat
    BY <2>1, RateNat DEF RuleTypes
  <2>3. \A x, y \in Nat : x * y = y * x
    OBVIOUS
  <2>. QED BY <2>2, <2>3, EventTyped, Zenon DEF Budget
<1>4. \A n \in 1 .. K :
          got[n] = IF SumFunctionOnSet(ask, 1 .. n - 1) >= B THEN 0
                   ELSE Lesser(ask[n], B - SumFunctionOnSet(ask, 1 .. n - 1))
  <2>. TAKE n \in 1 .. K
  <2>1. got[n] = Share(e, up, n) /\ ask[n] = Asked(e, up, n)
    BY <1>1
  <2>. HIDE DEF B, got
  <2>. QED BY <1>3, <2>1, Zenon DEF Share
<1>. HIDE DEF K, B, ask
<1>5. /\ \A n \in 1 .. K : got[n] \in Nat
      /\ SumFunctionOnSet(got, 1 .. K) <= B
  <2>. HIDE DEF got
  <2>. QED BY <1>1, <1>2, <1>4, Capped
<1>. QED BY <1>1, <1>5 DEF B

LEMMA AccrualsWithinBudget ==
    ASSUME IInv, LinksTyped, NEW e \in Events
    PROVE  /\ Accruals(e) \in [IBs -> Nat]
           /\ SumFunctionOnSet(Accruals(e), IBs) <= Budget(e)
<1>. DEFINE up == Ancestors(ReferredBy[e], event[e].at)
            shares == [n \in DOMAIN up |-> Share(e, up, n)]
            classes == [ib \in IBs |-> SumFunctionOnSet(shares, {n \in DOMAIN up : up[n] = ib})]
<1>b. Budget(e) \in Nat
  BY BudgetNat
<1>1. up \in Seq(IBs) /\ Len(up) <= Cardinality(IBs)
  <2>. DEFINE above == [i \in IBs |-> ParentAt(i, event[e].at)]
  <2>1. above \in Above /\ ReferredBy[e] \in IBs
    BY AccrualAssumption DEF AccrualAssumption, ParentAt, LinksTyped, Above
  <2>2. up = Chain(above, ReferredBy[e])
    BY DEF Ancestors
  <2>. HIDE DEF above, up
  <2>. QED BY <2>1, <2>2, ChainHolds
<1>. HIDE DEF up
<1>2. CASE DirectAmount(e) = NotYet
  <2>1. Accruals(e) = [ib \in IBs |-> 0]
    BY <1>2, Zenon DEF Accruals
  <2>2. Accruals(e) \in [IBs -> Nat] /\ \A ib \in IBs : Accruals(e)[ib] = 0
    BY <2>1
  <2>3. SumFunctionOnSet(Accruals(e), IBs) = 0
    BY <2>2, IBsFinite, SumZero
  <2>. QED BY <1>b, <2>2, <2>3
<1>3. CASE DirectAmount(e) # NotYet
  <2>1. Accruals(e) = classes
    BY <1>3, Zenon DEF Accruals, up
  <2>2. /\ \A n \in DOMAIN up : shares[n] \in Nat
        /\ SumFunctionOnSet(shares, DOMAIN up) <= Budget(e)
    BY <1>1, SharesWithinBudget
  <2>3. IsFiniteSet(DOMAIN up) /\ up \in [DOMAIN up -> IBs]
    <3>1. DOMAIN up = 1 .. Len(up) /\ Len(up) \in Nat
      BY <1>1
    <3>2. IsFiniteSet(1 .. Len(up))
      BY <3>1, FS_Interval
    <3>. QED BY <1>1, <3>1, <3>2
  <2>. HIDE DEF shares
  <2>4. \A n \in DOMAIN up : shares[n] \in Int
    BY <2>2
  <2>5. SumFunctionOnSet(classes, IBs) = SumFunctionOnSet(shares, DOMAIN up)
    BY <2>3, <2>4, IBsFinite, SumClasses, Zenon
  <2>6. classes \in [IBs -> Nat]
    <3>1. \A T \in SUBSET DOMAIN up : SumFunctionOnSet(shares, T) \in Nat
      BY <2>2, <2>3, SumNat
    <3>. QED BY <3>1
  <2>. QED BY <2>1, <2>2, <2>5, <2>6
<1>. QED BY <1>2, <1>3

(* An event that the network has not processed has shares for nobody.       *)
SharesTyped ==
    /\ share \in [Events -> [IBs -> Nat]] /\ cents \in [Events -> [IBs -> Nat]]
    /\ carry \in [IBs -> Nat] /\ done \in [Events -> BOOLEAN]

Processed ==
    \A e \in Events :
        /\ done[e] => Happened(e)
        /\ ~done[e] => \A ib \in IBs : share[e][ib] = 0 /\ cents[e][ib] = 0

SInv == SharesTyped /\ Processed /\ NetworkWithinBudget /\ SubCentsConserved

EventsFinite == IsFiniteSet(Events) /\ Cent \in Nat \ {0}

LEMMA EventsAreFinite == EventsFinite
  BY AccrualAssumption DEF AccrualAssumption, EventsFinite

LEMMA DivMod ==
    ASSUME NEW x \in Nat
    PROVE  \E q, r \in Nat : q = x \div Cent /\ r = x % Cent /\ x = Cent * q + r
<1>. DEFINE q == x \div Cent
            r == x % Cent
<1>c. Cent \in Nat \ {0}
  BY EventsAreFinite DEF EventsFinite
<1>1. q \in Nat /\ r \in 0 .. Cent - 1
  BY <1>c
<1>2. x = Cent * q + r
  BY <1>c
<1>. QED BY <1>1, <1>2

(* The rate of a time that has passed stays.                                *)
LEMMA RateStays ==
    ASSUME IInv, [Next]_vars, NEW ib \in IBs, NEW type \in RuleTypes,
           NEW t \in Times, t <= clock
    PROVE  RateIn(own'[<<ib, type>>], type, t) = RateIn(own[<<ib, type>>], type, t)
<1>1. CASE UNCHANGED own
  BY <1>1
<1>2. ASSUME NEW who \in IBs, NEW of \in RuleTypes, NEW rate, ChangeRate(who, of, rate)
      PROVE  RateIn(own'[<<ib, type>>], type, t) = RateIn(own[<<ib, type>>], type, t)
  <2>1. <<ib, type>> \in IBs \X RuleTypes
    OBVIOUS
  <2>2. CASE <<ib, type>> = <<who, of>>
    <3>1. clock \in Nat /\ clock' = clock + 1
          /\ \A u \in Times, ty \in RuleTypes : u < clock' =>
                 RateIn(own'[<<who, of>>], ty, u) = RateIn(own[<<who, of>>], ty, u)
      BY <1>2, ChangeHistory
    <3>2. t \in Nat
      BY TimesAreNumbers
    <3>3. t < clock'
      BY <3>1, <3>2
    <3>. QED BY <2>2, <3>1, <3>3
  <2>3. CASE <<ib, type>> # <<who, of>>
    <3>1. \A k \in (IBs \X RuleTypes) \ {<<who, of>>} : own'[k] = own[k]
      BY <1>2, ChangeHistory
    <3>2. own'[<<ib, type>>] = own[<<ib, type>>]
      BY <2>1, <2>3, <3>1, Zenon
    <3>. QED BY <3>2
  <2>. QED BY <2>2, <2>3
<1>3. UNCHANGED own \/ \E who \in IBs, of \in RuleTypes : \E rate : ChangeRate(who, of, rate)
  BY Zenon DEF Next, vars, Freeze, Unfreeze, LinkSubIB, Execute, SweepPerLot, ProcessExecution
<1>. QED BY <1>1, <1>2, <1>3

(* A budget, of a history and an event that are given.                      *)
BudgetIn(rules, ev) == ev.qty * RateIn(rules, "SUB_IB_BUDGET", ev.at)
BudgetRules(e) == <<ReferredBy[e], "SUB_IB_BUDGET">>

LEMMA BudgetIs ==
    \A e : Budget(e) = BudgetIn(own[BudgetRules(e)], event[e])
  BY DEF Budget, RateAt, RateIn, BudgetIn, BudgetRules

LEMMA BudgetStays ==
    ASSUME IInv, [Next]_vars, NEW e \in Events, Happened(e)
    PROVE  BudgetIn(own'[BudgetRules(e)], event'[e]) = BudgetIn(own[BudgetRules(e)], event[e])
<1>1. event'[e] = event[e]
  BY EventStays
<1>2. event[e].at \in Times /\ event[e].at <= clock /\ ReferredBy[e] \in IBs
  BY EventTyped, AccrualAssumption DEF AccrualAssumption, Happened
<1>3. RateIn(own'[BudgetRules(e)], "SUB_IB_BUDGET", event[e].at)
        = RateIn(own[BudgetRules(e)], "SUB_IB_BUDGET", event[e].at)
  BY <1>2, RateStays DEF RuleTypes, BudgetRules
<1>. QED BY <1>1, <1>3, Zenon DEF BudgetIn

BudgetsNat == \A e \in Events : BudgetIn(own[BudgetRules(e)], event[e]) \in Nat

LEMMA BudgetsAreNat == IInv => BudgetsNat
  BY BudgetNat, BudgetIs DEF BudgetsNat

LEMMA BudgetsAreNatNext == IInv' => BudgetsNat'
  BY BudgetsAreNat, PTL

AllWithinBudget ==
    \A e \in Events : SumFunctionOnSet(share[e], IBs) <= BudgetIn(own[BudgetRules(e)], event[e])

LEMMA WithinBudget == NetworkWithinBudget <=> AllWithinBudget
  BY Zenon DEF NetworkWithinBudget, AllWithinBudget, RateAt, RateIn, BudgetIn, BudgetRules

LEMMA WithinBudgetNext == NetworkWithinBudget' <=> AllWithinBudget'
  BY WithinBudget, PTL

LEMMA SharesInit == Init => SInv
<1>. SUFFICES ASSUME Init PROVE SInv
  OBVIOUS
<1>1. SharesTyped /\ Processed
  BY DEF Init, SharesTyped, Processed
<1>2. \A e \in Events : SumFunctionOnSet(share[e], IBs) = 0
  <2>. TAKE e \in Events
  <2>1. \A ib \in IBs : share[e][ib] = 0
    BY DEF Init
  <2>. QED BY <2>1, IBsFinite, SumZero
<1>3. NetworkWithinBudget
  <2>1. BudgetsNat
    BY InvInit, BudgetsAreNat
  <2>. QED BY <1>2, <2>1, WithinBudget DEF BudgetsNat, AllWithinBudget
<1>4. SubCentsConserved
  <2>1. ASSUME NEW ib \in IBs
        PROVE  SumFunctionOnSet([e \in Events |-> share[e][ib]], Events)
                 = Cent * SumFunctionOnSet([e \in Events |-> cents[e][ib]], Events) + carry[ib]
    <3>. DEFINE f == [e \in Events |-> share[e][ib]]
                h == [e \in Events |-> cents[e][ib]]
    <3>1. (\A e \in Events : f[e] = 0) /\ (\A e \in Events : h[e] = 0) /\ carry[ib] = 0
      BY DEF Init
    <3>. HIDE DEF f, h
    <3>2. SumFunctionOnSet(f, Events) = 0 /\ SumFunctionOnSet(h, Events) = 0
      BY <3>1, EventsAreFinite, SumZero DEF EventsFinite
    <3>3. 0 = Cent * 0 + 0
      BY EventsAreFinite DEF EventsFinite
    <3>. QED BY <3>1, <3>2, <3>3 DEF f, h
  <2>. QED BY <2>1 DEF SubCentsConserved
<1>. QED BY <1>1, <1>3, <1>4 DEF SInv

(* The network processes an event: its shares are within the budget, and    *)
(* what of them is not paid out is carried on.                              *)
LEMMA ProcessStep ==
    ASSUME IInv, LinksTyped, SInv, NEW e \in Events, ProcessExecution(e)
    PROVE  SInv'
<1>1. PICK amount : amount = Accruals(e)
  OBVIOUS
<1>2. /\ Happened(e) /\ ~done[e] /\ UNCHANGED <<event, own>>
      /\ done' = [done EXCEPT ![e] = TRUE]
      /\ share' = [share EXCEPT ![e] = amount]
      /\ cents' = [cents EXCEPT ![e] = [ib \in IBs |-> (carry[ib] + amount[ib]) \div Cent]]
      /\ carry' = [ib \in IBs |-> (carry[ib] + amount[ib]) % Cent]
  <2>1. e \in Unprocessed
    BY DEF ProcessExecution, FirstRows
  <2>2. Happened(e) /\ ~done[e]
    BY <2>1 DEF Unprocessed
  <2>. QED BY <1>1, <2>2, Zenon DEF ProcessExecution
<1>3. amount \in [IBs -> Nat] /\ SumFunctionOnSet(amount, IBs) <= Budget(e)
  BY <1>1, AccrualsWithinBudget
<1>t. /\ share \in [Events -> [IBs -> Nat]] /\ cents \in [Events -> [IBs -> Nat]]
      /\ carry \in [IBs -> Nat] /\ done \in [Events -> BOOLEAN]
  BY DEF SInv, SharesTyped
<1>4. \A ib \in IBs : \E q, r \in Nat :
          /\ q = (carry[ib] + amount[ib]) \div Cent /\ r = (carry[ib] + amount[ib]) % Cent
          /\ carry[ib] + amount[ib] = Cent * q + r
  <2>. TAKE ib \in IBs
  <2>1. carry[ib] + amount[ib] \in Nat
    BY <1>t, <1>3
  <2>. QED BY <2>1, DivMod
<1>5. SharesTyped'
  <2>1. [ib \in IBs |-> (carry[ib] + amount[ib]) \div Cent] \in [IBs -> Nat]
    BY <1>4
  <2>2. share' \in [Events -> [IBs -> Nat]] /\ cents' \in [Events -> [IBs -> Nat]]
    BY <1>t, <1>2, <1>3, <2>1, Zenon
  <2>3. carry' \in [IBs -> Nat] /\ done' \in [Events -> BOOLEAN]
    BY <1>t, <1>2, <1>4
  <2>. QED BY <2>2, <2>3 DEF SharesTyped
<1>6. Processed'
  BY <1>t, <1>2 DEF SInv, Processed, Happened
<1>7. NetworkWithinBudget'
  <2>. DEFINE budget(f) == BudgetIn(own[BudgetRules(f)], event[f])
  <2>1. SumFunctionOnSet(amount, IBs) <= budget(e)
    BY <1>3, BudgetIs
  <2>2. \A f \in Events : SumFunctionOnSet(share[f], IBs) <= budget(f)
    BY WithinBudget DEF SInv, AllWithinBudget
  <2>. HIDE DEF budget
  <2>3. share'[e] = amount /\ \A f \in Events \ {e} : share'[f] = share[f]
    BY <1>t, <1>2
  <2>4. \A f \in Events : SumFunctionOnSet(share'[f], IBs) <= budget(f)
    <3>. TAKE f \in Events
    <3>1. CASE f = e
      BY <2>1, <2>3, <3>1, Zenon
    <3>2. CASE f # e
      BY <2>2, <2>3, <3>2, Zenon
    <3>. QED BY <3>1, <3>2
  <2>5. AllWithinBudget'
    BY <1>2, <2>4, Zenon DEF AllWithinBudget, budget
  <2>. QED BY <2>5, WithinBudgetNext
<1>8. ASSUME NEW ib \in IBs
      PROVE  SumFunctionOnSet([x \in Events |-> share'[x][ib]], Events)
               = Cent * SumFunctionOnSet([x \in Events |-> cents'[x][ib]], Events) + carry'[ib]
  <2>1. PICK f, f1, h, h1 : /\ f = [x \in Events |-> share[x][ib]]
                            /\ f1 = [x \in Events |-> share'[x][ib]]
                            /\ h = [x \in Events |-> cents[x][ib]]
                            /\ h1 = [x \in Events |-> cents'[x][ib]]
    OBVIOUS
  <2>a. PICK a \in Nat : a = amount[ib]
    BY <1>3
  <2>c. PICK c \in Nat : c = carry[ib]
    BY <1>t
  <2>q. PICK q \in Nat, r \in Nat :
            /\ q = (carry[ib] + amount[ib]) \div Cent /\ r = (carry[ib] + amount[ib]) % Cent
            /\ carry[ib] + amount[ib] = Cent * q + r
    BY <1>4, Zenon
  <2>2. Cent * q + r = c + a
    BY <2>a, <2>c, <2>q
  <2>3. /\ \A x \in Events : f[x] \in Int /\ h[x] \in Int
        /\ f[e] = 0 /\ h[e] = 0
    BY <1>t, <1>2, <2>1 DEF SInv, Processed
  <2>4. /\ f1[e] = a /\ h1[e] = q /\ carry'[ib] = r
        /\ \A x \in Events \ {e} : f1[x] = f[x]
        /\ \A x \in Events \ {e} : h1[x] = h[x]
    BY <1>t, <1>2, <2>1, <2>a, <2>q
  <2>s. /\ IsFiniteSet(Events) /\ f1[e] \in Int /\ h1[e] \in Int
        /\ \A x \in Events : f[x] \in Int
        /\ \A x \in Events : h[x] \in Int
    BY <2>3, <2>4, EventsAreFinite DEF EventsFinite
  <2>5. /\ SumFunctionOnSet(f1, Events) = SumFunctionOnSet(f, Events) + (f1[e] - f[e])
        /\ SumFunctionOnSet(f, Events) \in Int
    BY <2>4, <2>s, SumPoint, Zenon
  <2>6. /\ SumFunctionOnSet(h1, Events) = SumFunctionOnSet(h, Events) + (h1[e] - h[e])
        /\ SumFunctionOnSet(h, Events) \in Int
    BY <2>4, <2>s, SumPoint, Zenon
  <2>7. PICK F \in Int, H \in Int : F = SumFunctionOnSet(f, Events) /\ H = SumFunctionOnSet(h, Events)
    BY <2>5, <2>6
  <2>8. F = Cent * H + c
    BY <2>1, <2>c, <2>7 DEF SInv, SubCentsConserved
  <2>9. Cent * (H + q) = Cent * H + Cent * q /\ Cent * H \in Int /\ Cent * q \in Int
    BY <2>2, EventsAreFinite DEF EventsFinite
  <2>10. F + a = Cent * (H + q) + r
    BY <2>2, <2>8, <2>9
  <2>11. SumFunctionOnSet(f1, Events) = F + a /\ SumFunctionOnSet(h1, Events) = H + q
    BY <2>2, <2>3, <2>4, <2>5, <2>6, <2>7
  <2>12. SumFunctionOnSet(f1, Events) = Cent * SumFunctionOnSet(h1, Events) + carry'[ib]
    BY <2>4, <2>10, <2>11, Zenon
  <2>. QED BY <2>1, <2>12, Zenon
<1>9. SubCentsConserved'
  BY <1>8 DEF SubCentsConserved
<1>. QED BY <1>5, <1>6, <1>7, <1>9 DEF SInv

LEMMA SharesStep == ASSUME IInv, LinksTyped, SInv, [Next]_vars PROVE SInv'
<1>1. CASE UNCHANGED <<share, cents, carry, done>>
  <2>1. SharesTyped' /\ SubCentsConserved'
    BY <1>1 DEF SInv, SharesTyped, SubCentsConserved
  <2>2. \A e \in Events : Happened(e) => event'[e] = event[e]
    BY EventStays
  <2>3. Processed'
    BY <1>1, <2>2 DEF SInv, Processed, Happened
  <2>4. NetworkWithinBudget'
    <3>1. IInv'
      BY InvStep
    <3>2. \A e \in Events : BudgetIn(own'[BudgetRules(e)], event'[e]) \in Nat
      BY <3>1, BudgetsAreNatNext DEF BudgetsNat, BudgetRules
    <3>3. ASSUME NEW e \in Events
          PROVE  SumFunctionOnSet(share[e], IBs) <= BudgetIn(own'[BudgetRules(e)], event'[e])
      <4>1. CASE Happened(e)
        <5>1. BudgetIn(own'[BudgetRules(e)], event'[e]) = BudgetIn(own[BudgetRules(e)], event[e])
          BY <4>1, BudgetStays
        <5>2. SumFunctionOnSet(share[e], IBs) <= BudgetIn(own[BudgetRules(e)], event[e])
          BY WithinBudget DEF SInv, AllWithinBudget
        <5>. QED BY <5>1, <5>2
      <4>2. CASE ~Happened(e)
        <5>1. \A ib \in IBs : share[e][ib] = 0
          BY <4>2 DEF SInv, Processed, SharesTyped
        <5>2. SumFunctionOnSet(share[e], IBs) = 0
          BY <5>1, IBsFinite, SumZero
        <5>. QED BY <3>2, <5>2
      <4>. QED BY <4>1, <4>2
    <3>4. AllWithinBudget'
      BY <1>1, <3>3, Zenon DEF AllWithinBudget, BudgetRules
    <3>. QED BY <3>4, WithinBudgetNext
  <2>. QED BY <2>1, <2>3, <2>4 DEF SInv
<1>2. UNCHANGED <<share, cents, carry, done>> \/ \E e \in Events : ProcessExecution(e)
  BY Zenon DEF Next, vars, Freeze, Unfreeze, LinkSubIB, ChangeRate, Execute, SweepPerLot
<1>. QED BY <1>1, <1>2, ProcessStep

THEOREM SharesInvariant == Spec => []SInv
  BY SharesInit, SharesStep, Invariant, LinksInvariant, PTL DEF Spec

(* What the levels of a network get stays within its budget, and all of it  *)
(* is paid, to the fraction of a cent that is carried on.                   *)
THEOREM SharesAddUp == Spec => []NetworkSharesAddUp
<1>1. SInv => NetworkSharesAddUp
  BY DEF SInv, NetworkSharesAddUp
<1>. QED BY <1>1, SharesInvariant, PTL

(* What is carried on is never a cent: a cent is paid as soon as it is due. *)
Carried == frozen \subseteq IBs /\ carry \in [IBs -> 0 .. Cent - 1]

LEMMA CarriedStep == ASSUME IInv, LinksTyped, SInv, Carried, [Next]_vars PROVE Carried'
<1>1. ASSUME NEW e \in Events, ProcessExecution(e) PROVE Carried'
  <2>1. PICK amount : amount = Accruals(e)
    OBVIOUS
  <2>2. carry' = [ib \in IBs |-> (carry[ib] + amount[ib]) % Cent] /\ UNCHANGED frozen
    BY <1>1, <2>1, Zenon DEF ProcessExecution
  <2>3. amount \in [IBs -> Nat]
    BY <2>1, AccrualsWithinBudget
  <2>4. ASSUME NEW ib \in IBs PROVE (carry[ib] + amount[ib]) % Cent \in 0 .. Cent - 1
    <3>1. PICK x \in Nat : x = carry[ib] + amount[ib]
      BY <2>3 DEF SInv, SharesTyped
    <3>2. x % Cent \in 0 .. Cent - 1
      BY EventsAreFinite DEF EventsFinite
    <3>. QED BY <3>1, <3>2
  <2>5. carry' \in [IBs -> 0 .. Cent - 1]
    BY <2>2, <2>4, Zenon
  <2>. QED BY <2>2, <2>5 DEF Carried
<1>2. CASE UNCHANGED carry /\ UNCHANGED frozen
  BY <1>2 DEF Carried
<1>3. ASSUME NEW ib \in IBs, Freeze(ib) \/ Unfreeze(ib) PROVE Carried'
  BY <1>3 DEF Carried, Freeze, Unfreeze
<1>4. \/ UNCHANGED carry /\ UNCHANGED frozen
      \/ \E ib \in IBs : Freeze(ib) \/ Unfreeze(ib)
      \/ \E e \in Events : ProcessExecution(e)
  BY Zenon DEF Next, vars, LinkSubIB, ChangeRate, Execute, SweepPerLot
<1>. QED BY <1>1, <1>2, <1>3, <1>4

(* Rows keep to their values, and what is carried on is less than a cent.   *)
THEOREM TypeCorrect == Spec => []TypeOK
<1>1. Init => Carried
  BY EventsAreFinite DEF Init, Carried, EventsFinite
<1>2. IInv /\ LinksTyped /\ SInv /\ Carried => TypeOK
  BY Zenon DEF IInv, Typed, EventRow, LinksTyped, SInv, SharesTyped, Carried, TypeOK
<1>. QED BY <1>1, <1>2, CarriedStep, Invariant, LinksInvariant, SharesInvariant, PTL DEF Spec
=============================================================================
